---- MODULE Spec2Model ----
(***************************************************************************)
(* State-machine model of the decent-share peer node core: two nodes, each *)
(* running the EventLoop of src/network/event_loop (command handlers and   *)
(* behaviour handlers) behind a Client, joined by the overlay's three      *)
(* request/response protocols and its DHT.                                 *)
(*                                                                         *)
(* A Client call is identified by its index k in `calls`; the one-shot     *)
(* reply channel created by that call is `reply[k]` (the sequence of       *)
(* values sent on it) and a pending-completion table stores k where the    *)
(* code stores the oneshot::Sender.  File payloads and destination paths   *)
(* are named after the call that supplied them: the bytes offered by       *)
(* call k are the payload k, written to the path k.                        *)
(***************************************************************************)
EXTENDS Integers, Sequences, FiniteSets, TLC

\* ------------------------------------------------------------------ bounds

\* Client calls made in one run, over both nodes.
MaxCalls == 2
\* Client calls made in one run of a trade between an offerer and an offeree.
MaxTradeCalls == 4
\* Client calls made in one run of registrations and lookups.
MaxDhtCalls == 3

\* Rendezvous requests (register, discover) one node sends.
MaxRendezvousRequests == 3

\* Entries of one rendezvous answer or one mDNS report.
MaxRegistrations == 3

\* ------------------------------------------------------------- value sets

Nodes == {"A", "B"}
\* A peer of the network that is neither of the two nodes.
ForeignPeer == "C"
Usernames == {"Alice"}
\* Usernames as a user may type them: spellings that differ in case only.
Spellings == {"Alice", "alice"}
Protocols == {"trade_offering", "trade_response", "direct_messaging"}

\* The values a DHT record can carry: the bytes of a peer id, the UTF-8
\* bytes of a username, or bytes that are neither.
PeerIdBytes(p) == [enc |-> "peer_id", peer |-> p, name |-> ""]
Utf8Bytes(u) == [enc |-> "utf8", peer |-> "", name |-> u]
Junk == [enc |-> "junk", peer |-> "", name |-> ""]

\* str::to_lowercase on the usernames of the model.
to_lowercase(u) == IF u = "Alice" THEN "alice" ELSE u

RecordValues ==
    {PeerIdBytes(p) : p \in Nodes \cup {ForeignPeer}}
    \cup {Utf8Bytes(to_lowercase(u)) : u \in Usernames}
    \cup {Junk}

\* kad::Record { key, value, .. } as the DHT holds it for `publisher`.
Record(key, value, publisher) ==
    [key |-> key, value |-> value, publisher |-> publisher]

\* Records published by peers other than the two nodes: their values decode
\* neither as a peer id nor as UTF-8.
ForeignRecords ==
    {Record(Utf8Bytes(to_lowercase(u)), Junk, "") : u \in Usernames}
    \cup {Record(PeerIdBytes(n), Junk, "") : n \in Nodes}

\* -------------------------------------------------------------- map helpers

EmptyMap == [x \in {} |-> 0]
Put(f, key, v) == [x \in (DOMAIN f) \cup {key} |-> IF x = key THEN v ELSE f[x]]
Remove(f, key) == [x \in (DOMAIN f) \ {key} |-> f[x]]

\* ------------------------------------------------------------ reply values

Ok == [tag |-> "Ok"]
Err(why) == [tag |-> "Err", why |-> why]
OkBytes(opt) == [tag |-> "Ok", bytes |-> opt]
OkName(u) == [tag |-> "Ok", name |-> u]
SomePeer(p) == [tag |-> "Some", peer |-> p]
SomeName(u) == [tag |-> "Some", name |-> u]
None == [tag |-> "None"]

\* ----------------------------------------------------------- UsernameStore

\* UsernameStore::default()
EmptyStore == [username_peer_id_map |-> EmptyMap,
               peer_id_username_map |-> EmptyMap]

\* A call of a UsernameStore method at the store of `node`, and what came of
\* it: <<>> for insert (which returns nothing), else the value returned or
\* the panic raised.
StoreCall(op, node, username, peer_id, result) ==
    [op |-> op, node |-> node, username |-> username, peer_id |-> peer_id,
     result |-> result]

NoCall == StoreCall("", "", "", "", <<>>)

\* todo!(..): the thread panics.
Todo == [tag |-> "panic", why |-> "not yet implemented"]

\* UsernameStore::insert starting from empty maps: the pairs cached before
\* are dropped.
insert_forgetting(store, username, peer_id) ==
    [username_peer_id_map |-> Put(EmptyMap, username, peer_id),
     peer_id_username_map |-> Put(EmptyMap, peer_id, username)]

\* UsernameStore::insert
insert(store, username, peer_id) ==
    [username_peer_id_map |-> Put(store.username_peer_id_map, username, peer_id),
     peer_id_username_map |-> Put(store.peer_id_username_map, peer_id, username)]

\* UsernameStore::get_username
get_username(store, peer_id) ==
    IF peer_id \in DOMAIN store.peer_id_username_map
    THEN SomeName(store.peer_id_username_map[peer_id])
    ELSE Todo

\* UsernameStore::get_peer_id
get_peer_id(store, username) ==
    IF username \in DOMAIN store.username_peer_id_map
    THEN SomePeer(store.username_peer_id_map[username])
    ELSE Todo

\* --------------------------------------------------------------- the state

VARIABLES
    calls,                            \* Client calls made so far: k |-> the Command built
    command_channel,                  \* node |-> Commands sent and not yet received (call ids)
    reply,                            \* k |-> values sent on the call's one-shot reply channel
    pending_register_username,        \* node |-> (QueryId |-> k)
    pending_peer_id_request,          \* node |-> (QueryId |-> k)
    pending_username_request,         \* node |-> (QueryId |-> k)
    pending_request_message,          \* node |-> (OutboundRequestId |-> k)
    pending_trade_offer_request,      \* node |-> (OutboundRequestId |-> k)
    pending_trade_response_response,  \* node |-> (OutboundRequestId |-> k)
    outgoing_trade_offers,            \* node |-> (<<peer, offer>> |-> bytes and path)
    inbound_trade_offers,             \* node |-> set of <<peer, offer>>
    has_registered_username,          \* node |-> BOOLEAN
    fs,                               \* node |-> (path |-> the bytes of the file there)
    event_channel,                    \* node |-> the Event being sent (at most one)
    pc,                               \* node |-> where the EventLoop task stands
    crashed,                          \* node |-> the EventLoop task has panicked
    net,                              \* request/response messages in flight
    next_request_id,                  \* node |-> (protocol |-> next OutboundRequestId)
    next_query_id,                    \* node |-> next kad QueryId
    queries,                          \* DHT queries the overlay still reports on
    failed,                           \* requests whose OutboundFailure was reported
    closed,                           \* requests whose ResponseChannel is closed
    dht,                              \* the records the DHT holds
    username_store,                   \* node |-> the Client's UsernameStore
    poisoned,                         \* node |-> the store's Mutex is poisoned
    store_call,                       \* the latest UsernameStore call and its outcome
    finished,                         \* find_user / find_peer_username calls that ran to their end
    gossip,                           \* chat messages the mesh has yet to hand to a node
    cookie,                           \* node |-> the rendezvous Cookie held (<<>>: None)
    rendezvous_peer_id,               \* node |-> the rendezvous point it was started with (<<>>: None)
    connected,                        \* node |-> a connection to the rendezvous point was established
    rendezvous_requests,              \* node |-> the requests sent to the rendezvous point
    answered,                         \* node |-> how many of its discover requests were answered
    dialed,                           \* node |-> the addresses passed to swarm.dial
    explicit_peers,                   \* node |-> the explicit peers of gossipsub
    routing_table,                    \* node |-> the <<peer, address>> pairs added to Kademlia
    swarm_event                       \* the latest discovery event a node has handled

tables == <<pending_register_username, pending_peer_id_request,
            pending_username_request, pending_request_message,
            pending_trade_offer_request, pending_trade_response_response>>

trades == <<outgoing_trade_offers, inbound_trade_offers>>

overlay == <<net, next_request_id, next_query_id, queries, failed, closed,
             dht, gossip>>

\* What discovery keeps: the EventLoop's cookie and rendezvous point, and
\* what the swarm was told about peers.
discovery == <<cookie, rendezvous_peer_id, connected, rendezvous_requests,
               answered, dialed, explicit_peers, routing_table, swarm_event>>

cache == <<username_store, poisoned, store_call, finished>>

\* All but the Client's UsernameStore.
event_loops == <<calls, command_channel, reply, tables, trades,
                 has_registered_username, fs, event_channel, pc, crashed,
                 overlay, discovery>>

vars == <<event_loops, cache>>

\* A discovery event as the swarm hands it to the EventLoop of `node`:
\* rendezvous Discovered carries registrations and a cookie, mDNS Discovered
\* and Expired carry a list of (peer id, address) pairs.
SwarmEvent(type, node, registrations, new_cookie, list) ==
    [type |-> type, node |-> node, registrations |-> registrations,
     cookie |-> new_cookie, list |-> list]

NoEvent == SwarmEvent("none", "", <<>>, "", <<>>)

\* The EventLoop task is in its select!, ready for the next event or command.
AtSelect == [at |-> "select"]

Running(n) == ~crashed[n] /\ pc[n] = AtSelect

\* The state after network::new, but for what the DHT and the chat mesh
\* hold and for the rendezvous point given on the command line.
Start ==
    /\ calls = <<>>
    /\ command_channel = [n \in Nodes |-> <<>>]
    /\ reply = <<>>
    /\ pending_register_username = [n \in Nodes |-> EmptyMap]
    /\ pending_peer_id_request = [n \in Nodes |-> EmptyMap]
    /\ pending_username_request = [n \in Nodes |-> EmptyMap]
    /\ pending_request_message = [n \in Nodes |-> EmptyMap]
    /\ pending_trade_offer_request = [n \in Nodes |-> EmptyMap]
    /\ pending_trade_response_response = [n \in Nodes |-> EmptyMap]
    /\ outgoing_trade_offers = [n \in Nodes |-> EmptyMap]
    /\ inbound_trade_offers = [n \in Nodes |-> {}]
    /\ has_registered_username = [n \in Nodes |-> FALSE]
    /\ fs = [n \in Nodes |-> EmptyMap]
    /\ event_channel = [n \in Nodes |-> <<>>]
    /\ pc = [n \in Nodes |-> AtSelect]
    /\ crashed = [n \in Nodes |-> FALSE]
    /\ net = {}
    /\ next_request_id = [n \in Nodes |-> [p \in Protocols |-> 1]]
    /\ next_query_id = [n \in Nodes |-> 1]
    /\ queries = {}
    /\ failed = {}
    /\ closed = {}
    /\ username_store = [n \in Nodes |-> EmptyStore]
    /\ poisoned = [n \in Nodes |-> FALSE]
    /\ store_call = NoCall
    /\ finished = {}
    /\ cookie = [n \in Nodes |-> <<>>]
    /\ connected = [n \in Nodes |-> FALSE]
    /\ rendezvous_requests = [n \in Nodes |-> <<>>]
    /\ answered = [n \in Nodes |-> 0]
    /\ dialed = [n \in Nodes |-> {}]
    /\ explicit_peers = [n \in Nodes |-> {}]
    /\ routing_table = [n \in Nodes |-> {}]
    /\ swarm_event = NoEvent

\* No rendezvous address was given on the command line.
NoRendezvous == rendezvous_peer_id = [n \in Nodes |-> <<>>]

\* The nodes join a DHT that holds no record.
Init == Start /\ dht = {} /\ gossip = {} /\ NoRendezvous

\* The nodes join a DHT that holds no record, or the records of foreign
\* peers.
DhtInit == Start /\ dht \in {{}, ForeignRecords} /\ gossip = {} /\ NoRendezvous

\* ------------------------------------------------------------------ Client

\* A Command as the Client builds it.  Fields a Command variant does not
\* have are left at "" / FALSE.
Command(node, kind, username, peer_id, offered, requested, accept, message) ==
    [node |-> node, kind |-> kind, username |-> username, peer_id |-> peer_id,
     offered_file_name |-> offered, requested_file_name |-> requested,
     accept |-> accept, message |-> message]

\* command_sender.send(command): the Command enters the channel of the
\* caller's node (every Client clone has a slot of its own there); the
\* call's reply channel is empty.  Sending fails once the EventLoop (the
\* receiver) is gone.
Send(cmd) ==
    /\ ~crashed[cmd.node]
    /\ calls' = Append(calls, cmd)
    /\ reply' = Append(reply, <<>>)
    /\ command_channel' =
           [command_channel EXCEPT ![cmd.node] = Append(@, Len(calls) + 1)]
    /\ UNCHANGED <<tables, trades, has_registered_username, fs,
                   event_channel, pc, crashed, overlay, cache, discovery>>

\* The Client methods, from the point where the recipient's peer id is
\* known (get_peer_id has returned it).
offer_trade(n, peer, offered, requested) ==
    Send(Command(n, "MakeTradeOffer", "", peer, offered, requested, FALSE, ""))

accept_trade(n, peer, offered, requested) ==
    Send(Command(n, "RespondTrade", "", peer, offered, requested, TRUE, ""))

decline_trade(n, peer, offered, requested) ==
    Send(Command(n, "RespondTrade", "", peer, offered, requested, FALSE, ""))

register_username(n, username) ==
    Send(Command(n, "RegisterUsername", username, "", "", "", FALSE, ""))

find_user(n, username) ==
    Send(Command(n, "FindPeerId", username, "", "", "", FALSE, ""))

find_peer_username(n, peer) ==
    Send(Command(n, "FindPeerUsername", "", peer, "", "", FALSE, ""))

send_message(n, message) ==
    Send(Command(n, "SendChatMessage", "", "", "", "", FALSE, message))

direct_message(n, peer, message) ==
    Send(Command(n, "DirectMessage", "", peer, "", "", FALSE, message))

\* ------------------------------------------------------- wire messages

TradeOffer(offered, requested) ==
    [offered_file_name |-> offered, requested_file_name |-> requested]

\* The payload of a request or response; a protocol's message uses the
\* fields it has (NoResponse uses none).
Body(offered, requested, bytes, message) ==
    [offered_file_name |-> offered, requested_file_name |-> requested,
     bytes |-> bytes, message |-> message]

NoResponse == Body("", "", <<>>, "")

Request(proto, id, from, to, body) ==
    [type |-> "request", proto |-> proto, id |-> id, from |-> from, to |-> to,
     body |-> body]

\* The response to request `req`, travelling back to the requester.
Response(req, body) ==
    [type |-> "response", proto |-> req.proto, id |-> req.id,
     from |-> req.to, to |-> req.from, body |-> body]

\* What names an outbound request: the requester, the protocol, the id.
ReqKey(m) ==
    IF m.type = "request"
    THEN [node |-> m.from, proto |-> m.proto, id |-> m.id]
    ELSE [node |-> m.to, proto |-> m.proto, id |-> m.id]

\* ------------------------------------------------------- the reply channel

\* What the Client method returns for the value `v` received on the call's
\* reply channel: accept_trade turns Ok(None) into an error, every other
\* method returns the value.
ClientResult(cmd, v) ==
    IF cmd.kind = "RespondTrade" /\ v.tag = "Ok" /\ v.bytes = <<>>
    THEN Err("No bytes were received!")
    ELSE v

\* sender.send(v) on the reply channel of call k.
Signal(k, v) == reply' = [reply EXCEPT ![k] = Append(@, v)]

\* The Command of call k has been received by the EventLoop.
Received(k) ==
    \A i \in 1..Len(command_channel[calls[k].node]) :
        command_channel[calls[k].node][i] # k

\* What the Client method of call k has returned, <<>> while it has not:
\* decline_trade returns Ok(()) as soon as its Command is received, every
\* other method returns what it receives on the reply channel.
ClientReturned(k) ==
    IF calls[k].kind = "RespondTrade" /\ ~calls[k].accept
    THEN IF Received(k) THEN <<Ok>> ELSE <<>>
    ELSE IF reply[k] = <<>> THEN <<>>
    ELSE <<ClientResult(calls[k], reply[k][1])>>

\* -------------------------------------------------------- command handlers

\* kademlia.put_record(record, Quorum::One): the record replaces the one
\* this node holds under the key, and the overlay starts a put query.
put_record(store, record) ==
    {r \in store : ~(r.publisher = record.publisher /\ r.key = record.key)}
    \cup {record}

Query(n, id, kind, key) ==
    [node |-> n, id |-> id, kind |-> kind, key |-> key, found |-> FALSE]

\* handle_register_username with the id of the second put entered in
\* pending_register_username in place of the first (line 34 after line 47).
handle_register_username_second_id(n, k) ==
    LET query_id == next_query_id[n]
        peer_id_bytes == PeerIdBytes(n)
        username_bytes == Utf8Bytes(to_lowercase(calls[k].username))
    IN
    /\ pending_register_username' =
           [pending_register_username EXCEPT ![n] = Put(@, query_id + 1, k)]
    /\ dht' = put_record(put_record(dht,
                              Record(username_bytes, peer_id_bytes, n)),
                          Record(peer_id_bytes, username_bytes, n))
    /\ queries' = queries \cup
           {Query(n, query_id, "put", username_bytes),
            Query(n, query_id + 1, "put", peer_id_bytes)}
    /\ next_query_id' = [next_query_id EXCEPT ![n] = query_id + 2]
    /\ UNCHANGED <<reply, pending_peer_id_request, pending_username_request,
                   pending_request_message, pending_trade_offer_request,
                   pending_trade_response_response, trades,
                   has_registered_username, fs, event_channel, pc, crashed,
                   net, next_request_id, failed, closed, gossip>>

handle_register_username(n, k) ==
    LET query_id == next_query_id[n]
        peer_id_bytes == PeerIdBytes(n)
        username_bytes == Utf8Bytes(to_lowercase(calls[k].username))
    IN
    /\ pending_register_username' =
           [pending_register_username EXCEPT ![n] = Put(@, query_id, k)]
    /\ dht' = put_record(put_record(dht,
                              Record(username_bytes, peer_id_bytes, n)),
                          Record(peer_id_bytes, username_bytes, n))
    /\ queries' = queries \cup
           {Query(n, query_id, "put", username_bytes),
            Query(n, query_id + 1, "put", peer_id_bytes)}
    /\ next_query_id' = [next_query_id EXCEPT ![n] = query_id + 2]
    /\ UNCHANGED <<reply, pending_peer_id_request, pending_username_request,
                   pending_request_message, pending_trade_offer_request,
                   pending_trade_response_response, trades,
                   has_registered_username, fs, event_channel, pc, crashed,
                   net, next_request_id, failed, closed, gossip>>

handle_find_peer_id(n, k) ==
    LET query_id == next_query_id[n] IN
    /\ pending_peer_id_request' =
           [pending_peer_id_request EXCEPT ![n] = Put(@, query_id, k)]
    /\ queries' = queries \cup
           {Query(n, query_id, "get",
                  Utf8Bytes(to_lowercase(calls[k].username)))}
    /\ next_query_id' = [next_query_id EXCEPT ![n] = query_id + 1]
    /\ UNCHANGED <<dht, reply, pending_register_username, pending_username_request,
                   pending_request_message, pending_trade_offer_request,
                   pending_trade_response_response, trades,
                   has_registered_username, fs, event_channel, pc, crashed,
                   net, next_request_id, failed, closed, gossip>>

\* A handle_find_peer_username whose query ids come from a counter of its
\* own (starting at 1) and not from the one of handle_find_peer_id.
handle_find_peer_username_own_ids(n, k) ==
    LET query_id == Cardinality(DOMAIN pending_username_request[n]) + 1 IN
    /\ pending_username_request' =
           [pending_username_request EXCEPT ![n] = Put(@, query_id, k)]
    /\ queries' = queries \cup
           {Query(n, query_id, "get", PeerIdBytes(calls[k].peer_id))}
    /\ UNCHANGED <<dht, reply, pending_register_username,
                   pending_peer_id_request, next_query_id,
                   pending_request_message, pending_trade_offer_request,
                   pending_trade_response_response, trades,
                   has_registered_username, fs, event_channel, pc, crashed,
                   net, next_request_id, failed, closed, gossip>>

handle_find_peer_username(n, k) ==
    LET query_id == next_query_id[n] IN
    /\ pending_username_request' =
           [pending_username_request EXCEPT ![n] = Put(@, query_id, k)]
    /\ queries' = queries \cup
           {Query(n, query_id, "get", PeerIdBytes(calls[k].peer_id))}
    /\ next_query_id' = [next_query_id EXCEPT ![n] = query_id + 1]
    /\ UNCHANGED <<dht, reply, pending_register_username, pending_peer_id_request,
                   pending_request_message, pending_trade_offer_request,
                   pending_trade_response_response, trades,
                   has_registered_username, fs, event_channel, pc, crashed,
                   net, next_request_id, failed, closed, gossip>>

\* handle_make_trade_offer with entry(..).or_insert in place of the insert
\* of lines 103-104: an entry already held for the tuple is kept.
handle_make_trade_offer_keeping_first(n, k) ==
    LET c == calls[k]
        offer == TradeOffer(c.offered_file_name, c.requested_file_name)
        query_id == next_request_id[n]["trade_offering"]
    IN
    IF c.peer_id = n
    THEN /\ Signal(k, Err("Sending trade offers to yourself is forbidden"))
         /\ UNCHANGED <<tables, trades, has_registered_username, fs,
                        event_channel, pc, crashed, overlay>>
    ELSE /\ net' = net \cup
                {Request("trade_offering", query_id, n, c.peer_id,
                         Body(offer.offered_file_name, offer.requested_file_name,
                              <<>>, ""))}
         /\ next_request_id' =
                [next_request_id EXCEPT ![n]["trade_offering"] = query_id + 1]
         /\ pending_trade_offer_request' =
                [pending_trade_offer_request EXCEPT ![n] = Put(@, query_id, k)]
         /\ outgoing_trade_offers' =
                [outgoing_trade_offers EXCEPT ![n] =
                    IF <<c.peer_id, offer>> \in DOMAIN @ THEN @
                    ELSE Put(@, <<c.peer_id, offer>>,
                             [offered_file_bytes |-> k,
                              requested_file_path |-> k])]
         /\ UNCHANGED <<reply, pending_register_username,
                        pending_peer_id_request, pending_username_request,
                        pending_request_message, pending_trade_response_response,
                        inbound_trade_offers, has_registered_username, fs,
                        event_channel, pc, crashed, next_query_id, queries, dht,
                        failed, closed, gossip>>

handle_make_trade_offer(n, k) ==
    LET c == calls[k]
        offer == TradeOffer(c.offered_file_name, c.requested_file_name)
        query_id == next_request_id[n]["trade_offering"]
    IN
    IF c.peer_id = n
    THEN /\ Signal(k, Err("Sending trade offers to yourself is forbidden"))
         /\ UNCHANGED <<tables, trades, has_registered_username, fs,
                        event_channel, pc, crashed, overlay>>
    ELSE /\ net' = net \cup
                {Request("trade_offering", query_id, n, c.peer_id,
                         Body(offer.offered_file_name, offer.requested_file_name,
                              <<>>, ""))}
         /\ next_request_id' =
                [next_request_id EXCEPT ![n]["trade_offering"] = query_id + 1]
         /\ pending_trade_offer_request' =
                [pending_trade_offer_request EXCEPT ![n] = Put(@, query_id, k)]
         /\ outgoing_trade_offers' =
                [outgoing_trade_offers EXCEPT ![n] =
                    Put(@, <<c.peer_id, offer>>,
                        [offered_file_bytes |-> k, requested_file_path |-> k])]
         /\ UNCHANGED <<reply, pending_register_username,
                        pending_peer_id_request, pending_username_request,
                        pending_request_message, pending_trade_response_response,
                        inbound_trade_offers, has_registered_username, fs,
                        event_channel, pc, crashed, next_query_id, queries, dht,
                        failed, closed, gossip>>

\* requested_file_bytes is Some(the payload of call k) for accept_trade and
\* None for decline_trade; offered_bytes_sender is Some exactly for
\* accept_trade.
handle_respond_trade(n, k) ==
    LET c == calls[k]
        offer == TradeOffer(c.offered_file_name, c.requested_file_name)
        requested_file_bytes == IF c.accept THEN <<k>> ELSE <<>>
        has_sender == c.accept
        request_id == next_request_id[n]["trade_response"]
    IN
    IF <<c.peer_id, offer>> \notin inbound_trade_offers[n]
    THEN /\ IF has_sender
            THEN Signal(k, Err("No valid trade with this user"))
            ELSE reply' = reply
         /\ UNCHANGED <<tables, trades, has_registered_username, fs,
                        event_channel, pc, crashed, overlay>>
    ELSE /\ inbound_trade_offers' =
                [inbound_trade_offers EXCEPT ![n] = @ \ {<<c.peer_id, offer>>}]
         /\ net' = net \cup
                {Request("trade_response", request_id, n, c.peer_id,
                         Body(c.offered_file_name, c.requested_file_name,
                              requested_file_bytes, ""))}
         /\ next_request_id' =
                [next_request_id EXCEPT ![n]["trade_response"] = request_id + 1]
         /\ IF has_sender
            THEN pending_trade_response_response' =
                     [pending_trade_response_response EXCEPT
                         ![n] = Put(@, request_id, k)]
            ELSE UNCHANGED pending_trade_response_response
         /\ UNCHANGED <<reply, pending_register_username,
                        pending_peer_id_request, pending_username_request,
                        pending_request_message, pending_trade_offer_request,
                        outgoing_trade_offers, has_registered_username, fs,
                        event_channel, pc, crashed, next_query_id, queries, dht,
                        failed, closed, gossip>>

\* A gossipsub Message of the chat topic on its way to node `to`, handed on
\* by the peer propagation_source.
ChatMessage(to, propagation_source, data) ==
    [to |-> to, propagation_source |-> propagation_source, data |-> data]

\* Chat messages of peers other than the two nodes: their data is not
\* UTF-8.
ForeignChat == {ChatMessage(n, ForeignPeer, Junk) : n \in Nodes}

\* A handle_send_chat_message that signals Ok whatever publish returned.
handle_send_chat_message_always_ok(n, k) ==
    /\ \E status \in {Ok, Err("PublishError")} :
          /\ Signal(k, Ok)
          /\ gossip' = IF status = Ok
                       THEN gossip \cup
                            {ChatMessage(p, n, Utf8Bytes(calls[k].message)) :
                                p \in Nodes \ {n}}
                       ELSE gossip
    /\ UNCHANGED <<tables, trades, has_registered_username, fs, event_channel,
                   pc, crashed, net, next_request_id, next_query_id, queries,
                   failed, closed, dht>>

\* gossipsub.publish succeeds or fails (no peers, message too large) as the
\* overlay decides; a published message goes to the other nodes of the
\* mesh.
handle_send_chat_message(n, k) ==
    /\ \E status \in {Ok, Err("PublishError")} :
          /\ Signal(k, status)
          /\ gossip' = IF status = Ok
                       THEN gossip \cup
                            {ChatMessage(p, n, Utf8Bytes(calls[k].message)) :
                                p \in Nodes \ {n}}
                       ELSE gossip
    /\ UNCHANGED <<tables, trades, has_registered_username, fs, event_channel,
                   pc, crashed, net, next_request_id, next_query_id, queries,
                   failed, closed, dht>>

\* handle_direct_message without the check of lines 164-171: the request is
\* sent whoever the recipient is.
handle_direct_message_unchecked(n, k) ==
    LET c == calls[k]
        request_id == next_request_id[n]["direct_messaging"]
    IN
    /\ net' = net \cup
           {Request("direct_messaging", request_id, n, c.peer_id,
                    Body("", "", <<>>, c.message))}
    /\ next_request_id' =
           [next_request_id EXCEPT ![n]["direct_messaging"] = request_id + 1]
    /\ pending_request_message' =
           [pending_request_message EXCEPT ![n] = Put(@, request_id, k)]
    /\ UNCHANGED <<reply, pending_register_username,
                   pending_peer_id_request, pending_username_request,
                   pending_trade_offer_request,
                   pending_trade_response_response, trades,
                   has_registered_username, fs, event_channel, pc, crashed,
                   next_query_id, queries, dht, failed, closed, gossip>>

handle_direct_message(n, k) ==
    LET c == calls[k]
        request_id == next_request_id[n]["direct_messaging"]
    IN
    IF c.peer_id = n
    THEN /\ Signal(k, Err("Sending direct messages to yourself is forbidden"))
         /\ UNCHANGED <<tables, trades, has_registered_username, fs,
                        event_channel, pc, crashed, overlay>>
    ELSE /\ net' = net \cup
                {Request("direct_messaging", request_id, n, c.peer_id,
                         Body("", "", <<>>, c.message))}
         /\ next_request_id' =
                [next_request_id EXCEPT ![n]["direct_messaging"] = request_id + 1]
         /\ pending_request_message' =
                [pending_request_message EXCEPT ![n] = Put(@, request_id, k)]
         /\ UNCHANGED <<reply, pending_register_username,
                        pending_peer_id_request, pending_username_request,
                        pending_trade_offer_request,
                        pending_trade_response_response, trades,
                        has_registered_username, fs, event_channel, pc, crashed,
                        next_query_id, queries, dht, failed, closed, gossip>>

\* The command branch with the queue read from its other end: the Command
\* enqueued last is received first.
handle_command_newest_first(n) ==
    /\ Running(n)
    /\ command_channel[n] # <<>>
    /\ command_channel' = [command_channel EXCEPT
           ![n] = SubSeq(@, 1, Len(@) - 1)]
    /\ calls' = calls
    /\ UNCHANGED <<cache, discovery>>
    /\ LET k == command_channel[n][Len(command_channel[n])] IN
       CASE calls[k].kind = "RegisterUsername" -> handle_register_username(n, k)
         [] calls[k].kind = "FindPeerId" -> handle_find_peer_id(n, k)
         [] calls[k].kind = "FindPeerUsername" -> handle_find_peer_username(n, k)
         [] calls[k].kind = "MakeTradeOffer" -> handle_make_trade_offer(n, k)
         [] calls[k].kind = "RespondTrade" -> handle_respond_trade(n, k)
         [] calls[k].kind = "SendChatMessage" -> handle_send_chat_message(n, k)
         [] calls[k].kind = "DirectMessage" -> handle_direct_message(n, k)

\* The command branch of the EventLoop's select!: receive the next Command
\* and run its handler.
handle_command(n) ==
    /\ Running(n)
    /\ command_channel[n] # <<>>
    /\ command_channel' = [command_channel EXCEPT ![n] = Tail(@)]
    /\ calls' = calls
    /\ UNCHANGED <<cache, discovery>>
    /\ LET k == Head(command_channel[n]) IN
       CASE calls[k].kind = "RegisterUsername" -> handle_register_username(n, k)
         [] calls[k].kind = "FindPeerId" -> handle_find_peer_id(n, k)
         [] calls[k].kind = "FindPeerUsername" -> handle_find_peer_username(n, k)
         [] calls[k].kind = "MakeTradeOffer" -> handle_make_trade_offer(n, k)
         [] calls[k].kind = "RespondTrade" -> handle_respond_trade(n, k)
         [] calls[k].kind = "SendChatMessage" -> handle_send_chat_message(n, k)
         [] calls[k].kind = "DirectMessage" -> handle_direct_message(n, k)

\* ------------------------------------------------------------ Events

Event(type, peer_id, offered, requested, was_accepted, message) ==
    [type |-> type, peer_id |-> peer_id, offered_file_name |-> offered,
     requested_file_name |-> requested, was_accepted |-> was_accepted,
     message |-> message]

\* event_sender.send(event).await: the channel has no buffer, so the
\* EventLoop task stays in the handler until the receiver takes the event;
\* `then` names what the handler still does, `req` the inbound request whose
\* ResponseChannel it holds, `entry` the OutgoingOffers entry it removed.
Emitting(then, req, entry) ==
    [at |-> "emit", then |-> then, req |-> req, entry |-> entry]

NoEntry == [offered_file_bytes |-> 0, requested_file_path |-> 0]

\* What a handler that holds no inbound request has for `req`.
NoRequest == [type |-> "none"]

\* A panic in a handler ends the EventLoop task.
Panic(n) == crashed' = [crashed EXCEPT ![n] = TRUE]

\* behaviour.send_response(channel, body).expect("Connection to peer was
\* dropped"): the response leaves for the requester, or the channel is
\* closed and the handler panics.  `rest` is the network without the
\* message being handled.
send_response(n, req, body, rest) ==
    /\ closed' = closed \ {ReqKey(req)}
    /\ IF ReqKey(req) \in closed
       THEN /\ Panic(n)
            /\ net' = rest
       ELSE /\ net' = rest \cup {Response(req, body)}
            /\ crashed' = crashed

\* ------------------------------------------------- DHT behaviour handlers

\* record.value decoded by PeerId::from_bytes(..).ok()
PeerIdFromBytes(value) ==
    IF value.enc = "peer_id" THEN SomePeer(value.peer) ELSE None

\* record.value decoded by String::from_utf8(..)
StringFromUtf8(value) ==
    IF value.enc = "utf8" THEN OkName(value.name) ELSE Err("FromUtf8Error")

\* handle_get_record on Ok(FoundRecord(record)) with get in place of the
\* remove of lines 20 and 26: the reply is sent and the entry stays.
handle_get_record_found_keeping(n, query_id, value) ==
    IF query_id \in DOMAIN pending_peer_id_request[n]
    THEN /\ Signal(pending_peer_id_request[n][query_id], PeerIdFromBytes(value))
         /\ UNCHANGED <<pending_peer_id_request, pending_username_request>>
    ELSE IF query_id \in DOMAIN pending_username_request[n]
    THEN /\ Signal(pending_username_request[n][query_id], StringFromUtf8(value))
         /\ UNCHANGED <<pending_peer_id_request, pending_username_request>>
    ELSE UNCHANGED <<reply, pending_peer_id_request, pending_username_request>>

\* handle_get_record on Ok(FoundRecord(record)).
handle_get_record_found(n, query_id, value) ==
    IF query_id \in DOMAIN pending_peer_id_request[n]
    THEN /\ Signal(pending_peer_id_request[n][query_id], PeerIdFromBytes(value))
         /\ pending_peer_id_request' =
                [pending_peer_id_request EXCEPT ![n] = Remove(@, query_id)]
         /\ UNCHANGED pending_username_request
    ELSE IF query_id \in DOMAIN pending_username_request[n]
    THEN /\ Signal(pending_username_request[n][query_id], StringFromUtf8(value))
         /\ pending_username_request' =
                [pending_username_request EXCEPT ![n] = Remove(@, query_id)]
         /\ UNCHANGED pending_peer_id_request
    ELSE UNCHANGED <<reply, pending_peer_id_request, pending_username_request>>

\* handle_get_record on Err(error) with the arms of lines 36-46 left out:
\* the error is dropped and the pending entry stays.
handle_get_record_error_unanswered(n, query_id) ==
    UNCHANGED <<reply, pending_peer_id_request, pending_username_request>>

\* handle_get_record on Err(error).
handle_get_record_error(n, query_id) ==
    IF query_id \in DOMAIN pending_peer_id_request[n]
    THEN /\ Signal(pending_peer_id_request[n][query_id], None)
         /\ pending_peer_id_request' =
                [pending_peer_id_request EXCEPT ![n] = Remove(@, query_id)]
         /\ UNCHANGED pending_username_request
    ELSE IF query_id \in DOMAIN pending_username_request[n]
    THEN /\ Signal(pending_username_request[n][query_id], Err("GetRecordError"))
         /\ pending_username_request' =
                [pending_username_request EXCEPT ![n] = Remove(@, query_id)]
         /\ UNCHANGED pending_peer_id_request
    ELSE UNCHANGED <<reply, pending_peer_id_request, pending_username_request>>

\* The overlay reports progress of a get query: any number of records
\* found under the key, then the end of the query:
\* Ok(FinishedWithNoAdditionalRecord) once a record was found, or an error
\* (no record found, or the query timed out).
handle_get_record(n, q) ==
    /\ Running(n)
    /\ q \in queries /\ q.node = n /\ q.kind = "get"
    /\ \/ /\ queries' = (queries \ {q}) \cup {[q EXCEPT !.found = TRUE]}
          /\ \E value \in RecordValues :
                /\ \E r \in dht : r.key = q.key /\ r.value = value
                /\ handle_get_record_found(n, q.id, value)
       \/ /\ q.found
          /\ queries' = queries \ {q}
          /\ UNCHANGED <<reply, pending_peer_id_request,
                         pending_username_request>>
       \/ /\ queries' = queries \ {q}
          /\ handle_get_record_error(n, q.id)
    /\ UNCHANGED <<cache, calls, command_channel, pending_register_username,
                   pending_request_message, pending_trade_offer_request,
                   pending_trade_response_response, trades,
                   has_registered_username, fs, event_channel, pc, crashed,
                   net, next_request_id, next_query_id, failed, closed, dht,
                   discovery, gossip>>

\* The overlay reports the result of a put query.
handle_put_record(n, q, record_is_ok) ==
    /\ Running(n)
    /\ q \in queries /\ q.node = n /\ q.kind = "put"
    /\ queries' = queries \ {q}
    /\ IF q.id \in DOMAIN pending_register_username[n]
       THEN /\ has_registered_username' =
                   [has_registered_username EXCEPT ![n] = record_is_ok]
            /\ Signal(pending_register_username[n][q.id],
                      IF record_is_ok THEN Ok ELSE Err("PutRecordError"))
            /\ pending_register_username' =
                   [pending_register_username EXCEPT ![n] = Remove(@, q.id)]
       ELSE UNCHANGED <<reply, has_registered_username,
                        pending_register_username>>
    /\ UNCHANGED <<cache, calls, command_channel, pending_peer_id_request,
                   pending_username_request, pending_request_message,
                   pending_trade_offer_request, pending_trade_response_response,
                   trades, fs, event_channel, pc, crashed, net, next_request_id,
                   next_query_id, failed, closed, dht, discovery, gossip>>

\* The overlay reports a change of the Kademlia routing table.  The
\* username of the Event is the one the node was started with.
handle_kademlia_routing_updated(n) ==
    /\ Running(n)
    /\ IF ~has_registered_username[n]
       THEN /\ event_channel' = [event_channel EXCEPT ![n] =
                   <<Event("RegistrationRequest", "", "", "", FALSE, "")>>]
            /\ pc' = [pc EXCEPT ![n] =
                   Emitting("routing_updated", NoRequest, NoEntry)]
       ELSE UNCHANGED <<event_channel, pc>>
    /\ UNCHANGED <<cache, calls, command_channel, reply, tables, trades,
                   has_registered_username, fs, crashed, overlay, discovery>>

\* ------------------------------------- request/response behaviour handlers

\* An inbound message of protocol `proto` that the overlay can hand to n.
Inbound(n, m, type, proto) ==
    /\ Running(n)
    /\ m \in net
    /\ m.type = type /\ m.proto = proto /\ m.to = n

\* handle_direct_messaging_message, Message::Request: emit
\* InboundDirectMessage and wait for the receiver; the response is sent
\* when the handler resumes (resume_handler).
handle_direct_messaging_request(n, m) ==
    /\ Inbound(n, m, "request", "direct_messaging")
    /\ net' = net \ {m}
    /\ event_channel' = [event_channel EXCEPT ![n] =
           <<Event("InboundDirectMessage", m.from, "", "", FALSE, m.body.message)>>]
    /\ pc' = [pc EXCEPT ![n] = Emitting("direct_messaging", m, NoEntry)]
    /\ UNCHANGED <<cache, calls, command_channel, reply, tables, trades,
                   has_registered_username, fs, crashed, next_request_id,
                   next_query_id, queries, dht, failed, closed, discovery,
                   gossip>>

\* handle_direct_messaging_message, Message::Response:
\* remove(&request_id).expect("Message was not pending").
handle_direct_messaging_response(n, m) ==
    /\ Inbound(n, m, "response", "direct_messaging")
    /\ net' = net \ {m}
    /\ IF m.id \in DOMAIN pending_request_message[n]
       THEN /\ Signal(pending_request_message[n][m.id], Ok)
            /\ pending_request_message' =
                   [pending_request_message EXCEPT ![n] = Remove(@, m.id)]
            /\ crashed' = crashed
       ELSE /\ Panic(n)
            /\ UNCHANGED <<reply, pending_request_message>>
    /\ UNCHANGED <<cache, calls, command_channel, pending_register_username,
                   pending_peer_id_request, pending_username_request,
                   pending_trade_offer_request, pending_trade_response_response,
                   trades, has_registered_username, fs, event_channel, pc,
                   next_request_id, next_query_id, queries, dht, failed,
                   closed, discovery, gossip>>

\* The overlay reports an OutboundFailure (timeout, connection closed, dial
\* failure, unsupported protocol) for a request n has sent; it reports at
\* most one per request.
OutboundFailure(n, proto, request_id) ==
    /\ Running(n)
    /\ request_id \in 1..(next_request_id[n][proto] - 1)
    /\ [node |-> n, proto |-> proto, id |-> request_id] \notin failed
    /\ failed' = failed \cup {[node |-> n, proto |-> proto, id |-> request_id]}

\* handle_direct_messaging_outbound_failure draining the table: the failed
\* request's reply channel is signaled and every pending entry dropped.
handle_direct_messaging_outbound_failure_clearing(n, request_id) ==
    /\ OutboundFailure(n, "direct_messaging", request_id)
    /\ IF request_id \in DOMAIN pending_request_message[n]
       THEN /\ Signal(pending_request_message[n][request_id],
                      Err("OutboundFailure"))
            /\ pending_request_message' =
                   [pending_request_message EXCEPT ![n] = EmptyMap]
            /\ crashed' = crashed
       ELSE /\ Panic(n)
            /\ UNCHANGED <<reply, pending_request_message>>
    /\ UNCHANGED <<cache, calls, command_channel, pending_register_username,
                   pending_peer_id_request, pending_username_request,
                   pending_trade_offer_request, pending_trade_response_response,
                   trades, has_registered_username, fs, event_channel, pc, net,
                   next_request_id, next_query_id, queries, dht, closed,
                   discovery, gossip>>

\* handle_direct_messaging_outbound_failure:
\* remove(&request_id).expect("Message was not pending").
handle_direct_messaging_outbound_failure(n, request_id) ==
    /\ OutboundFailure(n, "direct_messaging", request_id)
    /\ IF request_id \in DOMAIN pending_request_message[n]
       THEN /\ Signal(pending_request_message[n][request_id],
                      Err("OutboundFailure"))
            /\ pending_request_message' =
                   [pending_request_message EXCEPT ![n] = Remove(@, request_id)]
            /\ crashed' = crashed
       ELSE /\ Panic(n)
            /\ UNCHANGED <<reply, pending_request_message>>
    /\ UNCHANGED <<cache, calls, command_channel, pending_register_username,
                   pending_peer_id_request, pending_username_request,
                   pending_trade_offer_request, pending_trade_response_response,
                   trades, has_registered_username, fs, event_channel, pc, net,
                   next_request_id, next_query_id, queries, dht, closed,
                   discovery, gossip>>

\* handle_trade_offering_message, Message::Request, without the insert of
\* line 127: the offer is acknowledged and announced but not recorded.
handle_trade_offering_request_unrecorded(n, m) ==
    /\ Inbound(n, m, "request", "trade_offering")
    /\ send_response(n, m, NoResponse, net \ {m})
    /\ IF ReqKey(m) \in closed
       THEN UNCHANGED <<event_channel, pc>>
       ELSE /\ event_channel' = [event_channel EXCEPT ![n] =
                   <<Event("InboundTradeOffer", m.from, m.body.offered_file_name,
                           m.body.requested_file_name, FALSE, "")>>]
            /\ pc' = [pc EXCEPT ![n] = Emitting("trade_offering", m, NoEntry)]
    /\ UNCHANGED <<cache, calls, command_channel, reply, tables, trades,
                   has_registered_username, fs, next_request_id,
                   next_query_id, queries, dht, failed, discovery, gossip>>

\* handle_trade_offering_message, Message::Request: acknowledge, record the
\* offer, emit InboundTradeOffer.
handle_trade_offering_request(n, m) ==
    /\ Inbound(n, m, "request", "trade_offering")
    /\ send_response(n, m, NoResponse, net \ {m})
    /\ IF ReqKey(m) \in closed
       THEN UNCHANGED <<inbound_trade_offers, event_channel, pc>>
       ELSE /\ inbound_trade_offers' = [inbound_trade_offers EXCEPT ![n] =
                   @ \cup {<<m.from, TradeOffer(m.body.offered_file_name,
                                                m.body.requested_file_name)>>}]
            /\ event_channel' = [event_channel EXCEPT ![n] =
                   <<Event("InboundTradeOffer", m.from, m.body.offered_file_name,
                           m.body.requested_file_name, FALSE, "")>>]
            /\ pc' = [pc EXCEPT ![n] = Emitting("trade_offering", m, NoEntry)]
    /\ UNCHANGED <<cache, calls, command_channel, reply, tables,
                   outgoing_trade_offers, has_registered_username, fs,
                   next_request_id, next_query_id, queries, dht, failed,
                   discovery, gossip>>

\* handle_trade_offering_message, Message::Response, with get in place of
\* remove at line 141: the reply channel is signaled and the entry stays.
handle_trade_offering_response_keeping(n, m) ==
    /\ Inbound(n, m, "response", "trade_offering")
    /\ net' = net \ {m}
    /\ IF m.id \in DOMAIN pending_trade_offer_request[n]
       THEN Signal(pending_trade_offer_request[n][m.id], Ok)
       ELSE reply' = reply
    /\ UNCHANGED <<cache, calls, command_channel, tables, trades,
                   has_registered_username, fs, event_channel, pc, crashed,
                   next_request_id, next_query_id, queries, dht, failed,
                   closed, discovery, gossip>>

\* handle_trade_offering_message, Message::Response.
handle_trade_offering_response(n, m) ==
    /\ Inbound(n, m, "response", "trade_offering")
    /\ net' = net \ {m}
    /\ IF m.id \in DOMAIN pending_trade_offer_request[n]
       THEN /\ Signal(pending_trade_offer_request[n][m.id], Ok)
            /\ pending_trade_offer_request' =
                   [pending_trade_offer_request EXCEPT ![n] = Remove(@, m.id)]
       ELSE UNCHANGED <<reply, pending_trade_offer_request>>
    /\ UNCHANGED <<cache, calls, command_channel, pending_register_username,
                   pending_peer_id_request, pending_username_request,
                   pending_request_message, pending_trade_response_response,
                   trades, has_registered_username, fs, event_channel, pc,
                   crashed, next_request_id, next_query_id, queries, dht, failed,
                   closed, discovery, gossip>>

handle_trade_offering_outbound_failure(n, request_id) ==
    /\ OutboundFailure(n, "trade_offering", request_id)
    /\ IF request_id \in DOMAIN pending_trade_offer_request[n]
       THEN /\ Signal(pending_trade_offer_request[n][request_id],
                      Err("OutboundFailure"))
            /\ pending_trade_offer_request' =
                   [pending_trade_offer_request EXCEPT ![n] = Remove(@, request_id)]
       ELSE UNCHANGED <<reply, pending_trade_offer_request>>
    /\ UNCHANGED <<cache, calls, command_channel, pending_register_username,
                   pending_peer_id_request, pending_username_request,
                   pending_request_message, pending_trade_response_response,
                   trades, has_registered_username, fs, event_channel, pc,
                   crashed, net, next_request_id, next_query_id, queries,
                   dht, closed, discovery, gossip>>

\* handle_trade_response_message, Message::Request, answering a response
\* for an unknown tuple with offered_file_bytes = None instead of returning
\* at line 179.
handle_trade_response_request_answering(n, m) ==
    /\ Inbound(n, m, "request", "trade_response")
    /\ LET offer == TradeOffer(m.body.offered_file_name,
                               m.body.requested_file_name)
           key == <<m.from, offer>>
       IN
       IF key \notin DOMAIN outgoing_trade_offers[n]
       THEN /\ send_response(n, m,
                   Body(m.body.offered_file_name, m.body.requested_file_name,
                        <<>>, ""),
                   net \ {m})
            /\ UNCHANGED <<outgoing_trade_offers, event_channel, pc>>
       ELSE /\ net' = net \ {m}
            /\ closed' = closed
            /\ crashed' = crashed
            /\ outgoing_trade_offers' =
                   [outgoing_trade_offers EXCEPT ![n] = Remove(@, key)]
            /\ event_channel' = [event_channel EXCEPT ![n] =
                   <<Event("InboundTradeResponse", m.from,
                           m.body.offered_file_name, m.body.requested_file_name,
                           m.body.bytes # <<>>, "")>>]
            /\ pc' = [pc EXCEPT ![n] =
                   Emitting("trade_response", m, outgoing_trade_offers[n][key])]
    /\ UNCHANGED <<cache, calls, command_channel, reply, tables,
                   inbound_trade_offers, has_registered_username, fs,
                   next_request_id, next_query_id, queries, dht, failed,
                   discovery, gossip>>

\* A handle_trade_response_message that looks the offer up by its file
\* names alone, whoever the peer is.
handle_trade_response_request_any_peer(n, m) ==
    /\ Inbound(n, m, "request", "trade_response")
    /\ net' = net \ {m}
    /\ LET offer == TradeOffer(m.body.offered_file_name,
                               m.body.requested_file_name)
           keys == {key \in DOMAIN outgoing_trade_offers[n] : key[2] = offer}
       IN
       IF keys = {}
       THEN /\ closed' = closed \ {ReqKey(m)}
            /\ UNCHANGED <<outgoing_trade_offers, event_channel, pc>>
       ELSE \E key \in keys :
            /\ closed' = closed
            /\ outgoing_trade_offers' =
                   [outgoing_trade_offers EXCEPT ![n] = Remove(@, key)]
            /\ event_channel' = [event_channel EXCEPT ![n] =
                   <<Event("InboundTradeResponse", m.from,
                           m.body.offered_file_name, m.body.requested_file_name,
                           m.body.bytes # <<>>, "")>>]
            /\ pc' = [pc EXCEPT ![n] =
                   Emitting("trade_response", m, outgoing_trade_offers[n][key])]
    /\ UNCHANGED <<cache, calls, command_channel, reply, tables,
                   inbound_trade_offers, has_registered_username, fs, crashed,
                   next_request_id, next_query_id, queries, dht, failed,
                   discovery, gossip>>

\* handle_trade_response_message, Message::Request: look the offer up in
\* outgoing_trade_offers; absent, return (the ResponseChannel is dropped
\* unanswered); present, remove it, emit InboundTradeResponse and wait for
\* the receiver (the file is written and the response sent in
\* resume_handler).
handle_trade_response_request(n, m) ==
    /\ Inbound(n, m, "request", "trade_response")
    /\ net' = net \ {m}
    /\ LET offer == TradeOffer(m.body.offered_file_name,
                               m.body.requested_file_name)
           key == <<m.from, offer>>
       IN
       IF key \notin DOMAIN outgoing_trade_offers[n]
       THEN /\ closed' = closed \ {ReqKey(m)}
            /\ UNCHANGED <<outgoing_trade_offers, event_channel, pc>>
       ELSE /\ closed' = closed
            /\ outgoing_trade_offers' =
                   [outgoing_trade_offers EXCEPT ![n] = Remove(@, key)]
            /\ event_channel' = [event_channel EXCEPT ![n] =
                   <<Event("InboundTradeResponse", m.from,
                           m.body.offered_file_name, m.body.requested_file_name,
                           m.body.bytes # <<>>, "")>>]
            /\ pc' = [pc EXCEPT ![n] =
                   Emitting("trade_response", m, outgoing_trade_offers[n][key])]
    /\ UNCHANGED <<cache, calls, command_channel, reply, tables,
                   inbound_trade_offers, has_registered_username, fs, crashed,
                   next_request_id, next_query_id, queries, dht, failed,
                   discovery, gossip>>

\* handle_trade_response_message, Message::Response, sending Ok(None) in
\* place of Ok(response.offered_file_bytes) at line 230.
handle_trade_response_response_empty(n, m) ==
    /\ Inbound(n, m, "response", "trade_response")
    /\ net' = net \ {m}
    /\ IF m.id \in DOMAIN pending_trade_response_response[n]
       THEN /\ Signal(pending_trade_response_response[n][m.id], OkBytes(<<>>))
            /\ pending_trade_response_response' =
                   [pending_trade_response_response EXCEPT
                       ![n] = Remove(@, m.id)]
       ELSE UNCHANGED <<reply, pending_trade_response_response>>
    /\ UNCHANGED <<cache, calls, command_channel, pending_register_username,
                   pending_peer_id_request, pending_username_request,
                   pending_request_message, pending_trade_offer_request,
                   trades, has_registered_username, fs, event_channel, pc,
                   crashed, next_request_id, next_query_id, queries, dht, failed,
                   closed, discovery, gossip>>

\* handle_trade_response_message, Message::Response.
handle_trade_response_response(n, m) ==
    /\ Inbound(n, m, "response", "trade_response")
    /\ net' = net \ {m}
    /\ IF m.id \in DOMAIN pending_trade_response_response[n]
       THEN /\ Signal(pending_trade_response_response[n][m.id],
                      OkBytes(m.body.bytes))
            /\ pending_trade_response_response' =
                   [pending_trade_response_response EXCEPT
                       ![n] = Remove(@, m.id)]
       ELSE UNCHANGED <<reply, pending_trade_response_response>>
    /\ UNCHANGED <<cache, calls, command_channel, pending_register_username,
                   pending_peer_id_request, pending_username_request,
                   pending_request_message, pending_trade_offer_request,
                   trades, has_registered_username, fs, event_channel, pc,
                   crashed, next_request_id, next_query_id, queries, dht, failed,
                   closed, discovery, gossip>>

\* A handle_trade_response_outbound_failure that puts the tuple of the
\* failed TradeResponse back into inbound_trade_offers.
handle_trade_response_outbound_failure_restoring(n, request_id) ==
    /\ OutboundFailure(n, "trade_response", request_id)
    /\ IF request_id \in DOMAIN pending_trade_response_response[n]
       THEN LET k == pending_trade_response_response[n][request_id] IN
            /\ Signal(k, Err("OutboundFailure"))
            /\ pending_trade_response_response' =
                   [pending_trade_response_response EXCEPT
                       ![n] = Remove(@, request_id)]
            /\ inbound_trade_offers' = [inbound_trade_offers EXCEPT ![n] =
                   @ \cup {<<calls[k].peer_id,
                             TradeOffer(calls[k].offered_file_name,
                                        calls[k].requested_file_name)>>}]
       ELSE UNCHANGED <<reply, pending_trade_response_response,
                        inbound_trade_offers>>
    /\ UNCHANGED <<cache, calls, command_channel, pending_register_username,
                   pending_peer_id_request, pending_username_request,
                   pending_request_message, pending_trade_offer_request,
                   outgoing_trade_offers, has_registered_username, fs,
                   event_channel, pc, crashed, net, next_request_id,
                   next_query_id, queries, dht, closed, discovery, gossip>>

handle_trade_response_outbound_failure(n, request_id) ==
    /\ OutboundFailure(n, "trade_response", request_id)
    /\ IF request_id \in DOMAIN pending_trade_response_response[n]
       THEN /\ Signal(pending_trade_response_response[n][request_id],
                      Err("OutboundFailure"))
            /\ pending_trade_response_response' =
                   [pending_trade_response_response EXCEPT
                       ![n] = Remove(@, request_id)]
       ELSE UNCHANGED <<reply, pending_trade_response_response>>
    /\ UNCHANGED <<cache, calls, command_channel, pending_register_username,
                   pending_peer_id_request, pending_username_request,
                   pending_request_message, pending_trade_offer_request,
                   trades, has_registered_username, fs, event_channel, pc,
                   crashed, net, next_request_id, next_query_id, queries,
                   dht, closed, discovery, gossip>>

\* write_and_answer without the write of lines 195-202: the offered bytes
\* are released although the requested file was not stored.
write_and_answer_without_write(n, req, entry) ==
    /\ fs' = fs
    /\ send_response(n, req,
           Body(req.body.offered_file_name, req.body.requested_file_name,
                IF req.body.bytes = <<>> THEN <<>>
                ELSE <<entry.offered_file_bytes>>, ""),
           net)

\* write_and_answer with line 203 moved out of the if: the offered bytes
\* are released whether or not requested bytes came.
write_and_answer_releasing(n, req, entry) ==
    /\ fs' = IF req.body.bytes = <<>> THEN fs
             ELSE [fs EXCEPT ![n] =
                      Put(@, entry.requested_file_path, req.body.bytes)]
    /\ send_response(n, req,
           Body(req.body.offered_file_name, req.body.requested_file_name,
                <<entry.offered_file_bytes>>, ""),
           net)

\* write_and_answer with the result of tokio::fs::write ignored: the
\* offered bytes are released whether or not the file was written.
write_and_answer_ignoring_error(n, req, entry) ==
    IF req.body.bytes = <<>>
    THEN /\ fs' = fs
         /\ send_response(n, req,
                Body(req.body.offered_file_name, req.body.requested_file_name,
                     <<>>, ""),
                net)
    ELSE \E write_is_ok \in BOOLEAN :
            /\ fs' = IF write_is_ok
                     THEN [fs EXCEPT ![n] =
                              Put(@, entry.requested_file_path, req.body.bytes)]
                     ELSE fs
            /\ send_response(n, req,
                   Body(req.body.offered_file_name,
                        req.body.requested_file_name,
                        <<entry.offered_file_bytes>>, ""),
                   net)

\* write_and_answer with line 203 left out: the file is written and the
\* answer carries no offered bytes.
write_and_answer_withholding(n, req, entry) ==
    IF req.body.bytes = <<>>
    THEN /\ fs' = fs
         /\ send_response(n, req,
                Body(req.body.offered_file_name, req.body.requested_file_name,
                     <<>>, ""),
                net)
    ELSE \E write_is_ok \in BOOLEAN :
            IF write_is_ok
            THEN /\ fs' = [fs EXCEPT ![n] =
                            Put(@, entry.requested_file_path, req.body.bytes)]
                 /\ send_response(n, req,
                        Body(req.body.offered_file_name,
                             req.body.requested_file_name, <<>>, ""),
                        net)
            ELSE /\ Panic(n)
                 /\ closed' = closed \ {ReqKey(req)}
                 /\ UNCHANGED <<fs, net>>

\* handle_trade_response_message, Message::Request, after the event was
\* taken: without requested bytes answer None; with them write the file
\* (a file system error panics) and answer with the offered bytes.
write_and_answer(n, req, entry) ==
    IF req.body.bytes = <<>>
    THEN /\ fs' = fs
         /\ send_response(n, req,
                Body(req.body.offered_file_name, req.body.requested_file_name,
                     <<>>, ""),
                net)
    ELSE \E write_is_ok \in BOOLEAN :
            IF write_is_ok
            THEN /\ fs' = [fs EXCEPT ![n] =
                            Put(@, entry.requested_file_path, req.body.bytes)]
                 /\ send_response(n, req,
                        Body(req.body.offered_file_name,
                             req.body.requested_file_name,
                             <<entry.offered_file_bytes>>, ""),
                        net)
            ELSE /\ Panic(n)
                 /\ closed' = closed \ {ReqKey(req)}
                 /\ UNCHANGED <<fs, net>>

\* The receiver takes the Event from the channel and the handler that was
\* sending it runs to its end:
\*   handle_direct_messaging_message sends the empty response;
\*   handle_trade_offering_message and handle_gossipsub_message have
\*     nothing left to do;
\*   handle_trade_response_message writes the file and answers;
\*   handle_kademlia_routing_updated sets has_registered_username.
resume_handler(n) ==
    /\ ~crashed[n]
    /\ pc[n] # AtSelect
    /\ event_channel' = [event_channel EXCEPT ![n] = <<>>]
    /\ pc' = [pc EXCEPT ![n] = AtSelect]
    /\ CASE pc[n].then = "direct_messaging" ->
                /\ send_response(n, pc[n].req, NoResponse, net)
                /\ UNCHANGED <<fs, has_registered_username>>
         [] pc[n].then \in {"trade_offering", "gossipsub"} ->
                UNCHANGED <<net, crashed, fs, closed, has_registered_username>>
         [] pc[n].then = "trade_response" ->
                /\ write_and_answer(n, pc[n].req, pc[n].entry)
                /\ UNCHANGED has_registered_username
         [] pc[n].then = "routing_updated" ->
                /\ has_registered_username' =
                       [has_registered_username EXCEPT ![n] = TRUE]
                /\ UNCHANGED <<net, crashed, fs, closed>>
    /\ UNCHANGED <<cache, calls, command_channel, reply, tables, trades,
                   next_request_id, next_query_id, queries, dht, failed,
                   discovery, gossip>>

\* The requests whose ResponseChannel a node still holds unanswered: those
\* not yet handed to it, and the one held by its handler while that handler
\* waits in event_sender.send (handle_trade_offering_message has answered
\* before it waits).
Unanswered ==
    {m \in net : m.type = "request"}
    \cup {pc[n].req : n \in {x \in Nodes : /\ ~crashed[x]
                                           /\ pc[x] # AtSelect
                                           /\ pc[x].then \in
                                                {"direct_messaging",
                                                 "trade_response"}}}

\* The connection to the requester closes, or the request times out on the
\* responder's side, before the request is answered: its ResponseChannel
\* is closed.
close_channel(m) ==
    /\ m \in Unanswered
    /\ ReqKey(m) \notin closed
    /\ closed' = closed \cup {ReqKey(m)}
    /\ UNCHANGED <<cache, calls, command_channel, reply, tables, trades,
                   has_registered_username, fs, event_channel, pc, crashed, net,
                   next_request_id, next_query_id, queries, dht, failed,
                   discovery, gossip>>

\* ------------------------------------------------- chat behaviour handler

\* String::from_utf8_lossy(&message.data).into_owned(): the text of UTF-8
\* data, and the replacement character for bytes that are not UTF-8.
from_utf8_lossy(data) == IF data.enc = "utf8" THEN data.name ELSE "U+FFFD"

\* handle_gossipsub_message: emit InboundChat and wait for the receiver.
handle_gossipsub_message(n, m) ==
    /\ Running(n)
    /\ m \in gossip /\ m.to = n
    /\ gossip' = gossip \ {m}
    /\ event_channel' = [event_channel EXCEPT ![n] =
           <<Event("InboundChat", m.propagation_source, "", "", FALSE,
                   from_utf8_lossy(m.data))>>]
    /\ pc' = [pc EXCEPT ![n] = Emitting("gossipsub", NoRequest, NoEntry)]
    /\ UNCHANGED <<cache, discovery, calls, command_channel, reply, tables,
                   trades, has_registered_username, fs, crashed, net,
                   next_request_id, next_query_id, queries, failed, closed,
                   dht>>

\* -------------------------------------------- discovery behaviour handlers

\* A Multiaddr: transport components (`base`) followed by /p2p/<peer id>
\* components.
Multiaddr(base, p2p) == [base |-> base, p2p |-> p2p]

\* address.ends_with(&Multiaddr::empty().with(Protocol::P2p(peer_id)))
ends_with_p2p(address, peer_id) ==
    /\ address.p2p # <<>>
    /\ address.p2p[Len(address.p2p)] = peer_id

\* address.clone().with(Protocol::P2p(peer_id))
with_p2p(address, peer_id) == [address EXCEPT !.p2p = Append(@, peer_id)]

\* address_with_p2p of lines 313-318: the suffix is appended unless the
\* address already ends with it.
address_with_p2p(address, peer_id) ==
    IF ends_with_p2p(address, peer_id) THEN address
    ELSE with_p2p(address, peer_id)

\* rendezvous::Registration: the peer record (peer id and addresses) that a
\* peer registered at the rendezvous point.
Registration(peer_id, addresses) ==
    [peer_id |-> peer_id, addresses |-> addresses]

\* The elements of a sequence.
Range(seq) == {seq[i] : i \in 1..Len(seq)}

\* The registrations the loop of lines 303-332 works through: it returns
\* at the first registration of the local node.
RECURSIVE Visited(_, _)
Visited(n, registrations) ==
    IF registrations = <<>> THEN <<>>
    ELSE IF Head(registrations).peer_id = n THEN <<>>
    ELSE <<Head(registrations)>> \o Visited(n, Tail(registrations))

\* The (peer id, address) pairs a set of registrations advertises.
Advertised(registrations) ==
    UNION {{<<r.peer_id, a>> : a \in Range(r.addresses)} : r \in registrations}

\* A request to the rendezvous point: discover(namespace, cookie, ..) or
\* register(namespace, .., ttl None).
RendezvousRequest(kind, with_cookie) == [kind |-> kind, cookie |-> with_cookie]

\* The discover requests node n has sent.
Discovers(n) ==
    {i \in 1..Len(rendezvous_requests[n]) :
        rendezvous_requests[n][i].kind = "discover"}

\* A handle_rendezvous_discovered that keeps the cookie it holds
\* (get_or_insert instead of replace).
handle_rendezvous_discovered_first_cookie(n, registrations, new_cookie, dial_is_ok) ==
    LET visited == Range(Visited(n, registrations)) IN
    /\ Running(n)
    /\ answered[n] < Cardinality(Discovers(n))
    /\ answered' = [answered EXCEPT ![n] = @ + 1]
    /\ swarm_event' =
           SwarmEvent("Discovered", n, registrations, new_cookie, <<>>)
    /\ cookie' = [cookie EXCEPT ![n] =
           IF @ = <<>> THEN <<new_cookie>> ELSE @]
    /\ IF Len(registrations) < 2
       THEN UNCHANGED <<dialed, routing_table, explicit_peers, crashed>>
       ELSE IF Advertised(visited) # {} /\ ~dial_is_ok
       THEN /\ Panic(n)
            /\ UNCHANGED <<dialed, routing_table, explicit_peers>>
       ELSE /\ dialed' = [dialed EXCEPT ![n] = @ \cup
                   {address_with_p2p(pa[2], pa[1]) : pa \in Advertised(visited)}]
            /\ routing_table' = [routing_table EXCEPT ![n] =
                   @ \cup Advertised(visited)]
            /\ explicit_peers' = [explicit_peers EXCEPT ![n] =
                   @ \cup {r.peer_id : r \in visited}]
            /\ crashed' = crashed
    /\ UNCHANGED <<cache, calls, command_channel, reply, tables, trades,
                   has_registered_username, fs, event_channel, pc, overlay,
                   rendezvous_peer_id, connected, rendezvous_requests>>

\* handle_rendezvous_discovered, on the rendezvous point's answer to a
\* discover request: store the cookie; a list of fewer than two
\* registrations is left alone; otherwise dial every address of every
\* registration visited, add the address to Kademlia and the peer to the
\* explicit peers.  swarm.dial(..).unwrap() panics on a DialError (here:
\* of the first dial).
handle_rendezvous_discovered(n, registrations, new_cookie, dial_is_ok) ==
    LET visited == Range(Visited(n, registrations)) IN
    /\ Running(n)
    /\ answered[n] < Cardinality(Discovers(n))
    /\ answered' = [answered EXCEPT ![n] = @ + 1]
    /\ swarm_event' =
           SwarmEvent("Discovered", n, registrations, new_cookie, <<>>)
    /\ cookie' = [cookie EXCEPT ![n] = <<new_cookie>>]
    /\ IF Len(registrations) < 2
       THEN UNCHANGED <<dialed, routing_table, explicit_peers, crashed>>
       ELSE IF Advertised(visited) # {} /\ ~dial_is_ok
       THEN /\ Panic(n)
            /\ UNCHANGED <<dialed, routing_table, explicit_peers>>
       ELSE /\ dialed' = [dialed EXCEPT ![n] = @ \cup
                   {address_with_p2p(pa[2], pa[1]) : pa \in Advertised(visited)}]
            /\ routing_table' = [routing_table EXCEPT ![n] =
                   @ \cup Advertised(visited)]
            /\ explicit_peers' = [explicit_peers EXCEPT ![n] =
                   @ \cup {r.peer_id : r \in visited}]
            /\ crashed' = crashed
    /\ UNCHANGED <<cache, calls, command_channel, reply, tables, trades,
                   has_registered_username, fs, event_channel, pc, overlay,
                   rendezvous_peer_id, connected, rendezvous_requests>>

\* handle_connected_to_rendezvous_server: discover(namespace, None, None,
\* self.rendezvous_peer_id.unwrap()).
handle_connected_to_rendezvous_server(n) ==
    /\ IF rendezvous_peer_id[n] = <<>>
       THEN /\ Panic(n)
            /\ UNCHANGED rendezvous_requests
       ELSE /\ rendezvous_requests' = [rendezvous_requests EXCEPT ![n] =
                   Append(@, RendezvousRequest("discover", <<>>))]
            /\ crashed' = crashed
    /\ UNCHANGED <<cache, calls, command_channel, reply, tables, trades,
                   has_registered_username, fs, event_channel, pc, overlay,
                   cookie, rendezvous_peer_id, answered, dialed,
                   explicit_peers, routing_table, swarm_event>>

\* The swarm reports the first connection established with the rendezvous
\* point the node was started with.
connected_to_rendezvous_server(n) ==
    /\ Running(n)
    /\ rendezvous_peer_id[n] # <<>>
    /\ ~connected[n]
    /\ connected' = [connected EXCEPT ![n] = TRUE]
    /\ handle_connected_to_rendezvous_server(n)

\* The 30-second ticker fires while a cookie is held:
\* discover(namespace, cookie, ..).
discover_tick(n) ==
    /\ Running(n)
    /\ cookie[n] # <<>>
    /\ rendezvous_requests' = [rendezvous_requests EXCEPT ![n] =
           Append(@, RendezvousRequest("discover", cookie[n]))]
    /\ UNCHANGED <<cache, calls, command_channel, reply, tables, trades,
                   has_registered_username, fs, event_channel, pc, crashed,
                   overlay, cookie, rendezvous_peer_id, connected, answered,
                   dialed, explicit_peers, routing_table, swarm_event>>

\* handle_identify_received: the observed address is recorded; without a
\* rendezvous point that is all; with one, register(namespace,
\* rendezvous_peer_id, None) is sent unless the behaviour refuses it (no
\* external address), which is only logged.
handle_identify_received(n) ==
    /\ Running(n)
    /\ IF rendezvous_peer_id[n] = <<>>
       THEN UNCHANGED rendezvous_requests
       ELSE \E register_is_ok \in BOOLEAN :
               rendezvous_requests' =
                   IF register_is_ok
                   THEN [rendezvous_requests EXCEPT ![n] =
                            Append(@, RendezvousRequest("register", <<>>))]
                   ELSE rendezvous_requests
    /\ UNCHANGED <<cache, calls, command_channel, reply, tables, trades,
                   has_registered_username, fs, event_channel, pc, crashed,
                   overlay, cookie, rendezvous_peer_id, connected, answered,
                   dialed, explicit_peers, routing_table, swarm_event>>

\* handle_mdns_discovered: every peer of the list becomes an explicit peer
\* of gossipsub and every address is added to Kademlia.
handle_mdns_discovered(n, list) ==
    /\ Running(n)
    /\ swarm_event' = SwarmEvent("MdnsDiscovered", n, <<>>, "", list)
    /\ explicit_peers' = [explicit_peers EXCEPT ![n] =
           @ \cup {pa[1] : pa \in Range(list)}]
    /\ routing_table' = [routing_table EXCEPT ![n] = @ \cup Range(list)]
    /\ UNCHANGED <<cache, calls, command_channel, reply, tables, trades,
                   has_registered_username, fs, event_channel, pc, crashed,
                   overlay, cookie, rendezvous_peer_id, connected,
                   rendezvous_requests, answered, dialed>>

\* A handle_mdns_expired that also forgets the addresses of the expired
\* peers.
handle_mdns_expired_forgetting(n, list) ==
    /\ Running(n)
    /\ swarm_event' = SwarmEvent("MdnsExpired", n, <<>>, "", list)
    /\ explicit_peers' = [explicit_peers EXCEPT ![n] =
           @ \ {pa[1] : pa \in Range(list)}]
    /\ routing_table' = [routing_table EXCEPT ![n] = @ \ Range(list)]
    /\ UNCHANGED <<cache, calls, command_channel, reply, tables, trades,
                   has_registered_username, fs, event_channel, pc, crashed,
                   overlay, cookie, rendezvous_peer_id, connected,
                   rendezvous_requests, answered, dialed>>

\* handle_mdns_expired: every peer of the list is removed from the explicit
\* peers of gossipsub.
handle_mdns_expired(n, list) ==
    /\ Running(n)
    /\ swarm_event' = SwarmEvent("MdnsExpired", n, <<>>, "", list)
    /\ explicit_peers' = [explicit_peers EXCEPT ![n] =
           @ \ {pa[1] : pa \in Range(list)}]
    /\ UNCHANGED <<cache, calls, command_channel, reply, tables, trades,
                   has_registered_username, fs, event_channel, pc, crashed,
                   overlay, cookie, rendezvous_peer_id, connected,
                   rendezvous_requests, answered, dialed, routing_table>>

\* ------------------------------------------------------- the specification

Offers == {<<"x", "y">>}

\* The nodes whose DHT and chat commands are followed.  Those commands
\* involve no second EventLoop (the DHT and the gossip mesh answer them), so
\* one caller shows all there is; trades and direct messages run both ways.
DhtCallers == {"A"}

\* A Client call.
Call ==
    \/ \E n \in Nodes, peer \in Nodes, o \in Offers :
          offer_trade(n, peer, o[1], o[2])
    \/ \E n \in Nodes : \E peer \in Nodes \ {n}, o \in Offers :
          \/ accept_trade(n, peer, o[1], o[2])
          \/ decline_trade(n, peer, o[1], o[2])
    \/ \E n \in DhtCallers, u \in Usernames :
          \/ register_username(n, u)
          \/ find_user(n, u)
    \/ \E n \in DhtCallers : \E peer \in Nodes \ {n} :
          find_peer_username(n, peer)
    \/ \E n \in Nodes, peer \in Nodes : direct_message(n, peer, "hi")
    \/ \E n \in DhtCallers : send_message(n, "hello")

\* A step of the EventLoop on a Command or on the trade protocols, at
\* either node.
TradeStep ==
    \/ \E n \in Nodes : handle_command(n)
    \/ \E n \in Nodes : resume_handler(n)
    \/ \E n \in Nodes, m \in net :
          \/ handle_trade_offering_request(n, m)
          \/ handle_trade_offering_response(n, m)
          \/ handle_trade_response_request(n, m)
          \/ handle_trade_response_response(n, m)
    \/ \E n \in Nodes, request_id \in 1..Len(calls) :
          handle_trade_response_outbound_failure(n, request_id)

Next ==
    \/ Len(calls) < MaxCalls /\ Call
    \/ TradeStep
    \/ \E n \in Nodes, request_id \in 1..Len(calls) :
          handle_trade_offering_outbound_failure(n, request_id)
    \/ \E m \in Unanswered : close_channel(m)
    \/ \E n \in Nodes, q \in queries :
          \/ handle_get_record(n, q)
          \/ \E record_is_ok \in BOOLEAN : handle_put_record(n, q, record_is_ok)
    \/ \E n \in Nodes, m \in net :
          \/ handle_direct_messaging_request(n, m)
          \/ handle_direct_messaging_response(n, m)
    \/ \E n \in Nodes, request_id \in 1..Len(calls) :
          handle_direct_messaging_outbound_failure(n, request_id)

Spec == Init /\ [][Next]_vars

\* Every Client method called at node n so far has returned: the user
\* interface awaits each call before it reads the next line of input.
Idle(n) ==
    \A k \in 1..Len(calls) : calls[k].node = n => ClientReturned(k) # <<>>

\* The scheduling behind the liveness claims.  The EventLoop task is polled
\* by the runtime: a Command in the channel is received, an Event being
\* sent is taken by the receiver.  The overlay hands over what it holds: a
\* message under way is delivered, a DHT query comes to its end, and a
\* request still pending at its sender is reported failed unless its
\* response arrives first.
Deliver(n) ==
    \E m \in net :
        \/ handle_direct_messaging_request(n, m)
        \/ handle_direct_messaging_response(n, m)
        \/ handle_trade_offering_request(n, m)
        \/ handle_trade_offering_response(n, m)
        \/ handle_trade_response_request(n, m)
        \/ handle_trade_response_response(n, m)

EndQuery(n) ==
    \E q \in queries :
        \/ handle_get_record(n, q)
        \/ \E record_is_ok \in BOOLEAN : handle_put_record(n, q, record_is_ok)

FailPending(n) ==
    \/ \E id \in DOMAIN pending_request_message[n] :
          handle_direct_messaging_outbound_failure(n, id)
    \/ \E id \in DOMAIN pending_trade_offer_request[n] :
          handle_trade_offering_outbound_failure(n, id)
    \/ \E id \in DOMAIN pending_trade_response_response[n] :
          handle_trade_response_outbound_failure(n, id)

Fairness ==
    \A n \in Nodes :
        /\ WF_vars(handle_command(n))
        /\ WF_vars(resume_handler(n))
        /\ WF_vars(Deliver(n))
        /\ WF_vars(EndQuery(n))
        /\ SF_vars(FailPending(n))

LiveSpec == Spec /\ Fairness

\* A trade between the offerer A and the offeree B, each behind the user
\* interface: A offers, B accepts or declines, in any number and order up
\* to MaxTradeCalls calls.  Under TradeSpec the connection stays up while
\* offers are made and answered (every offer is acknowledged, no
\* ResponseChannel closes); the trade-response exchange can still fail.
TradeCall ==
    \E o \in Offers :
        \/ Idle("A") /\ offer_trade("A", "B", o[1], o[2])
        \/ Idle("B") /\ accept_trade("B", "A", o[1], o[2])
        \/ Idle("B") /\ decline_trade("B", "A", o[1], o[2])

TradeNext ==
    \/ Len(calls) < MaxTradeCalls /\ TradeCall
    \/ TradeStep

TradeSpec == Init /\ [][TradeNext]_vars

\* A TradeResponse that accepts the offer of `Offers`, sent to node A by a
\* peer the offer was not made to.
ForeignAccept ==
    Request("trade_response", 1, ForeignPeer, "A",
            Body("x", "y", <<0>>, ""))

\* The overlay hands over the foreign peer's TradeResponse.
foreign_trade_response ==
    /\ ForeignAccept \notin net
    /\ net' = net \cup {ForeignAccept}
    /\ UNCHANGED <<cache, discovery, calls, command_channel, reply, tables,
                   trades, has_registered_username, fs, event_channel, pc,
                   crashed, next_request_id, next_query_id, queries, dht,
                   failed, closed, gossip>>

\* Trades between A and B while a third peer answers A's offers too.
ReleaseNext ==
    \/ TradeNext
    \/ foreign_trade_response

ReleaseSpec == Init /\ [][ReleaseNext]_vars

\* ------------------------------------------------ the Client's UsernameStore

\* A UsernameStore method called through self.username_store.lock()
\* .unwrap(): the lock is granted unless a thread panicked while holding it,
\* and a panic inside the method poisons it.
store_insert(n, username, peer_id) ==
    /\ ~poisoned[n]
    /\ username_store' =
           [username_store EXCEPT ![n] = insert(@, username, peer_id)]
    /\ store_call' = StoreCall("insert", n, username, peer_id, <<>>)
    /\ UNCHANGED <<poisoned, finished, event_loops>>

store_get_peer_id(n, username) ==
    LET cached_value == get_peer_id(username_store[n], username) IN
    /\ ~poisoned[n]
    /\ store_call' = StoreCall("get_peer_id", n, username, "", <<cached_value>>)
    /\ poisoned' = [poisoned EXCEPT ![n] = cached_value = Todo]
    /\ UNCHANGED <<username_store, finished, event_loops>>

store_get_username(n, peer_id) ==
    LET cached_value == get_username(username_store[n], peer_id) IN
    /\ ~poisoned[n]
    /\ store_call' = StoreCall("get_username", n, "", peer_id, <<cached_value>>)
    /\ poisoned' = [poisoned EXCEPT ![n] = cached_value = Todo]
    /\ UNCHANGED <<username_store, finished, event_loops>>

\* Client::get_peer_id: the cached peer id, else find_user.
Client_get_peer_id(n, username) ==
    LET peer_id == get_peer_id(username_store[n], username) IN
    /\ ~poisoned[n]
    /\ IF peer_id = Todo
       THEN /\ store_call' =
                   StoreCall("Client::get_peer_id", n, username, "", <<Todo>>)
            /\ poisoned' = [poisoned EXCEPT ![n] = TRUE]
            /\ UNCHANGED <<username_store, finished, event_loops>>
       ELSE IF peer_id = None
       THEN find_user(n, username)
       ELSE /\ store_call' =
                   StoreCall("Client::get_peer_id", n, username, "", <<peer_id>>)
            /\ UNCHANGED <<username_store, poisoned, finished, event_loops>>

\* Client::get_username: the cached username, else find_peer_username.
Client_get_username(n, peer_id) ==
    LET username == get_username(username_store[n], peer_id) IN
    /\ ~poisoned[n]
    /\ IF username = Todo
       THEN /\ store_call' =
                   StoreCall("Client::get_username", n, "", peer_id, <<Todo>>)
            /\ poisoned' = [poisoned EXCEPT ![n] = TRUE]
            /\ UNCHANGED <<username_store, finished, event_loops>>
       ELSE IF username = None
       THEN find_peer_username(n, peer_id)
       ELSE /\ store_call' =
                   StoreCall("Client::get_username", n, "", peer_id,
                             <<OkName(username.name)>>)
            /\ UNCHANGED <<username_store, poisoned, finished, event_loops>>

\* The end of Client::find_user: the peer id received on the reply channel
\* is cached when it is Some, and returned.  (With the Mutex poisoned,
\* lock().unwrap() panics and nothing is cached.)
find_user_returns(k) ==
    LET n == calls[k].node
        peer_id == reply[k][1]
    IN
    /\ calls[k].kind = "FindPeerId"
    /\ k \notin finished
    /\ reply[k] # <<>>
    /\ finished' = finished \cup {k}
    /\ IF peer_id.tag = "Some" /\ ~poisoned[n]
       THEN /\ username_store' = [username_store EXCEPT
                   ![n] = insert(@, calls[k].username, peer_id.peer)]
            /\ store_call' =
                   StoreCall("insert", n, calls[k].username, peer_id.peer, <<>>)
       ELSE UNCHANGED <<username_store, store_call>>
    /\ UNCHANGED <<poisoned, event_loops>>

\* The end of Client::find_peer_username: the username received is cached
\* when it is Ok, and returned.
find_peer_username_returns(k) ==
    LET n == calls[k].node
        username == reply[k][1]
    IN
    /\ calls[k].kind = "FindPeerUsername"
    /\ k \notin finished
    /\ reply[k] # <<>>
    /\ finished' = finished \cup {k}
    /\ IF username.tag = "Ok" /\ ~poisoned[n]
       THEN /\ username_store' = [username_store EXCEPT
                   ![n] = insert(@, username.name, calls[k].peer_id)]
            /\ store_call' =
                   StoreCall("insert", n, username.name, calls[k].peer_id, <<>>)
       ELSE UNCHANGED <<username_store, store_call>>
    /\ UNCHANGED <<poisoned, event_loops>>

\* The UsernameStore under any sequence of calls of its methods.
StoreNext ==
    \/ \E n \in Nodes, username \in Spellings, peer_id \in Nodes :
          store_insert(n, username, peer_id)
    \/ \E n \in Nodes, username \in Spellings : store_get_peer_id(n, username)
    \/ \E n \in Nodes, peer_id \in Nodes : store_get_username(n, peer_id)

StoreSpec == Init /\ [][StoreNext]_vars

\* Registrations and lookups: the DHT commands at either node, the
\* EventLoop's command and DHT handlers, and the overlay's reports of
\* routing-table updates.
DhtCall ==
    \/ \E n \in Nodes, u \in Usernames : Idle(n) /\ register_username(n, u)
    \/ \E n \in DhtCallers, u \in Usernames : Idle(n) /\ find_user(n, u)
    \/ \E n \in DhtCallers, peer \in Nodes :
          Idle(n) /\ find_peer_username(n, peer)

DhtNext ==
    \/ Len(calls) < MaxDhtCalls /\ DhtCall
    \/ \E n \in Nodes : handle_command(n)
    \/ \E n \in Nodes : resume_handler(n)
    \/ \E n \in DhtCallers : handle_kademlia_routing_updated(n)
    \/ \E n \in Nodes, q \in queries : handle_get_record(n, q)
    \/ \E n \in Nodes, q \in queries, record_is_ok \in BOOLEAN :
          handle_put_record(n, q, record_is_ok)

DhtSpec == DhtInit /\ [][DhtNext]_vars

DhtLiveSpec == DhtSpec /\ Fairness

\* The Client's cached lookups next to the registrations and lookups they
\* fall back to.
CacheNext ==
    \/ Len(calls) < MaxDhtCalls /\ DhtCall
    \/ \E n \in DhtCallers, username \in Spellings :
          Client_get_peer_id(n, username)
    \/ \E n \in DhtCallers, peer_id \in Nodes : Client_get_username(n, peer_id)
    \/ \E k \in 1..Len(calls) : find_user_returns(k)
    \/ \E k \in 1..Len(calls) : find_peer_username_returns(k)
    \/ \E n \in Nodes : handle_command(n)
    \/ \E n \in Nodes, q \in queries : handle_get_record(n, q)
    \/ \E n \in Nodes, q \in queries, record_is_ok \in BOOLEAN :
          handle_put_record(n, q, record_is_ok)

CacheSpec == Init /\ [][CacheNext]_vars

\* A username registered by a peer outside the model before the nodes
\* start: its two records, as handle_register_username puts them.
ForeignRegistration ==
    {Record(Utf8Bytes(to_lowercase(u)), PeerIdBytes(ForeignPeer), ForeignPeer) :
        u \in Usernames}
    \cup {Record(PeerIdBytes(ForeignPeer), Utf8Bytes(to_lowercase(u)),
                 ForeignPeer) : u \in Usernames}

RegisteredInit ==
    Start /\ dht = ForeignRegistration /\ gossip = {} /\ NoRendezvous

\* The Client's cached lookups in a network where the username is taken
\* already and is registered again by a node.
RefreshSpec == RegisteredInit /\ [][CacheNext]_vars

\* Lookups issued without waiting for one another (Client is Clone, and
\* its methods take &self), against a DHT that holds records or none.
LookupNext ==
    \/ /\ Len(calls) < MaxDhtCalls
       /\ \/ \E n \in DhtCallers, u \in Usernames : find_user(n, u)
          \/ \E n \in DhtCallers, peer \in Nodes : find_peer_username(n, peer)
    \/ \E n \in DhtCallers : handle_command(n)
    \/ \E n \in DhtCallers, q \in queries : handle_get_record(n, q)

LookupSpec == DhtInit /\ [][LookupNext]_vars

\* handle_network_event: the application task, which has no Client call of
\* its own under way, takes the Event the EventLoop is sending and prints
\* it (the sender's name is in the cache); the EventLoop goes on with its
\* handler.
handle_network_event(n) ==
    /\ Idle(n)
    /\ event_channel[n] # <<>>
    /\ event_channel[n][1].type # "RegistrationRequest"
    /\ resume_handler(n)

\* The application: one task per node that either reads a line and awaits
\* the Client call it asks for, or takes an Event; direct messages and
\* trade offers between the two nodes, and the overlay failing requests.
AppNext ==
    \/ /\ Len(calls) < MaxCalls
       /\ \E n \in Nodes : \E peer \in Nodes \ {n} :
             /\ Idle(n)
             /\ \/ direct_message(n, peer, "hi")
                \/ \E o \in Offers : offer_trade(n, peer, o[1], o[2])
    \/ \E n \in Nodes : handle_command(n)
    \/ \E n \in Nodes : handle_network_event(n)
    \/ \E n \in Nodes, m \in net :
          \/ handle_direct_messaging_request(n, m)
          \/ handle_direct_messaging_response(n, m)
          \/ handle_trade_offering_request(n, m)
          \/ handle_trade_offering_response(n, m)
    \/ \E n \in Nodes, request_id \in 1..Len(calls) :
          \/ handle_direct_messaging_outbound_failure(n, request_id)
          \/ handle_trade_offering_outbound_failure(n, request_id)

AppSpec == Init /\ [][AppNext]_vars

\* ------------------------------------------------- vocabulary of the claims

\* The Command of call k was built with a reply channel: every Command but
\* the RespondTrade of decline_trade.
HasReplyChannel(k) == ~(calls[k].kind = "RespondTrade" /\ ~calls[k].accept)

\* This step is the EventLoop of node n receiving the Command of call k and
\* running its handler.
Handles(n, k) ==
    /\ Running(n)
    /\ command_channel[n] # <<>>
    /\ Head(command_channel[n]) = k
    /\ command_channel'[n] = Tail(command_channel[n])

\* This step is the EventLoop of node n taking the inbound message m from
\* the overlay and running its handler.
Takes(n, m) ==
    /\ Running(n)
    /\ m \in net /\ m.to = n
    /\ m \notin net'

IsErr(v) == v.tag = "Err"

\* The (peer_id, TradeOffer) tuple a RespondTrade command names.
Tuple(k) ==
    <<calls[k].peer_id,
      TradeOffer(calls[k].offered_file_name, calls[k].requested_file_name)>>

\* ------------------------------------------------- discovery and the chat

RendezvousPoint == "R"

Cookies == {"c1", "c2"}

\* What a peer registers at the rendezvous point: an address without and
\* an address with its /p2p/<peer id> suffix.
RegistrationOf(p) ==
    Registration(p, <<Multiaddr("tcp", <<>>), Multiaddr("quic", <<p>>)>>)

\* The sequences of at most `max` elements of S, none of them twice.
Lists(S, max) ==
    {l \in UNION {[1..k -> S] : k \in 0..max} :
        \A i, j \in DOMAIN l : i # j => l[i] # l[j]}

\* What the rendezvous point can answer: the registrations of any of the
\* peers, the asking node among them or not, in any order.
RegistrationLists ==
    Lists({RegistrationOf(p) : p \in Nodes \cup {ForeignPeer}},
          MaxRegistrations)

\* What mDNS can report to node n: peers of the local network with their
\* address.
MdnsLists(n) ==
    Lists({<<p, Multiaddr("tcp", <<>>)>> :
              p \in (Nodes \cup {ForeignPeer}) \ {n}}, MaxRegistrations)
    \ {<<>>}

\* A node started with or without a rendezvous point.
DiscoveryInit ==
    /\ Start /\ dht = {} /\ gossip = {}
    /\ rendezvous_peer_id \in
           {[n \in Nodes |-> <<>>], [n \in Nodes |-> <<RendezvousPoint>>]}

\* Discovery at one node, next to its trade offers (so that the pending
\* and trade tables hold entries).
DiscoveryNext ==
    \/ /\ Len(calls) < MaxCalls
       /\ \E n \in DhtCallers, peer \in Nodes \ DhtCallers, o \in Offers :
             offer_trade(n, peer, o[1], o[2])
    \/ \E n \in DhtCallers : handle_command(n)
    \/ \E n \in DhtCallers :
          /\ Len(rendezvous_requests[n]) < MaxRendezvousRequests
          /\ \/ connected_to_rendezvous_server(n)
             \/ handle_identify_received(n)
             \/ discover_tick(n)
    \/ \E n \in DhtCallers, registrations \in RegistrationLists,
          new_cookie \in Cookies, dial_is_ok \in BOOLEAN :
          handle_rendezvous_discovered(n, registrations, new_cookie,
                                       dial_is_ok)
    \/ \E n \in DhtCallers : \E list \in MdnsLists(n) :
          \/ handle_mdns_discovered(n, list)
          \/ handle_mdns_expired(n, list)

DiscoverySpec == DiscoveryInit /\ [][DiscoveryNext]_vars

\* A node started with foreign chat messages under way to it, or none.
ChatInit ==
    /\ Start /\ dht = {} /\ NoRendezvous
    /\ gossip \in {{}, ForeignChat}

\* The chat: either node publishes, the mesh delivers, the application
\* takes the events.
ChatNext ==
    \/ /\ Len(calls) < MaxDhtCalls
       /\ \E n \in Nodes, text \in {"hello", "bye"} : send_message(n, text)
    \/ \E n \in Nodes : handle_command(n)
    \/ \E n \in Nodes, m \in gossip : handle_gossipsub_message(n, m)
    \/ \E n \in Nodes : resume_handler(n)

ChatSpec == ChatInit /\ [][ChatNext]_vars

\* --------------------------------------------------------------------- C1

\* C1: every Command enqueued with a reply channel eventually has exactly
\* one value on that channel, and no reply channel ever carries more than
\* one, when the overlay delivers a completion for every id it issued
\* (the fairness of LiveSpec).
C1_EveryCommandAnswered ==
    /\ \A k \in 1..MaxCalls :
          (k <= Len(calls) /\ HasReplyChannel(k))
          ~> (k <= Len(calls) /\ Len(reply[k]) = 1)
    /\ [](\A k \in 1..Len(calls) : Len(reply[k]) <= 1)

\* -------------------------------------------------------------------- C2

TableNames ==
    {"register_username", "peer_id_request", "username_request",
     "request_message", "trade_offer_request", "trade_response_response"}

\* The pending-completion table of that name.
Table(t) ==
    CASE t = "register_username" -> pending_register_username
      [] t = "peer_id_request" -> pending_peer_id_request
      [] t = "username_request" -> pending_username_request
      [] t = "request_message" -> pending_request_message
      [] t = "trade_offer_request" -> pending_trade_offer_request
      [] t = "trade_response_response" -> pending_trade_response_response

\* The table that holds the requests of a request/response protocol.
TableOf(proto) ==
    CASE proto = "direct_messaging" -> "request_message"
      [] proto = "trade_offering" -> "trade_offer_request"
      [] proto = "trade_response" -> "trade_response_response"

KadTables == {"register_username", "peer_id_request", "username_request"}

\* The next id the overlay will hand out for an entry of table t at node n.
NextId(t, n) ==
    CASE t \in KadTables -> next_query_id[n]
      [] t = "request_message" -> next_request_id[n]["direct_messaging"]
      [] t = "trade_offer_request" -> next_request_id[n]["trade_offering"]
      [] t = "trade_response_response" -> next_request_id[n]["trade_response"]

\* The calls whose reply channel this step signals.
Signaled == {k \in 1..Len(calls) : reply'[k] # reply[k]}

\* The calls whose entry this step removes from a pending table.
Resolved ==
    {Table(t)[n][id] : <<t, n, id>> \in
        {x \in TableNames \X Nodes \X (1..(2 * Len(calls))) :
            /\ x[3] \in DOMAIN Table(x[1])[x[2]]
            /\ x[3] \notin DOMAIN Table(x[1])'[x[2]]}}

\* This step is a completion (a response, an outbound failure, a DHT query
\* event) reported to node n for an id that is in none of its tables for
\* that kind of completion.
CompletionWithoutEntry(n) ==
    \/ \E m \in net :
          /\ Takes(n, m) /\ m.type = "response"
          /\ m.id \notin DOMAIN Table(TableOf(m.proto))[n]
    \/ \E key \in failed' \ failed :
          /\ key.node = n
          /\ key.id \notin DOMAIN Table(TableOf(key.proto))[n]
    \/ \E q \in queries \ queries' :
          /\ q.node = n
          /\ \A t \in KadTables : q.id \notin DOMAIN Table(t)[n]

\* What a step does to the pending tables is in order: an id that enters a
\* table is fresh (at or beyond the overlay's id counter, which moves past
\* it and never back); an entry keeps its reply channel while it stays; a
\* removal signals the entry's reply channel, which was empty and then
\* holds exactly one value; a reply channel is signaled only by the removal
\* of its entry or by the command handler answering at once; and a
\* completion for an id that has no entry signals nothing and changes no
\* table.
PendingTablesInOrder ==
    /\ \A t \in TableNames : \A n \in Nodes :
          /\ NextId(t, n)' >= NextId(t, n)
          /\ \A id \in DOMAIN Table(t)'[n] \ DOMAIN Table(t)[n] :
                 id >= NextId(t, n) /\ id < NextId(t, n)'
          /\ \A id \in DOMAIN Table(t)[n] \cap DOMAIN Table(t)'[n] :
                 Table(t)'[n][id] = Table(t)[n][id]
          /\ \A id \in DOMAIN Table(t)[n] \ DOMAIN Table(t)'[n] :
                 /\ reply[Table(t)[n][id]] = <<>>
                 /\ Len(reply'[Table(t)[n][id]]) = 1
    /\ \A k \in Signaled :
          /\ Len(reply'[k]) = 1
          /\ k \in Resolved \/ Handles(calls[k].node, k)
    /\ \A n \in Nodes :
          CompletionWithoutEntry(n) => reply' = reply /\ tables' = tables

OfferCompletedTwice(k) ==
    /\ calls[k].kind = "MakeTradeOffer" /\ calls[k].peer_id # calls[k].node
    /\ next_request_id[calls[k].node]["trade_offering"] = 2
    /\ [node |-> calls[k].node, proto |-> "trade_offering", id |-> 1] \in failed
    /\ \A m \in net : ~(m.proto = "trade_offering"
                        /\ ReqKey(m).node = calls[k].node)
    /\ ~crashed[calls[k].peer_id]

SelfAddressed(k) ==
    /\ calls[k].kind \in {"MakeTradeOffer", "DirectMessage"}
    /\ calls[k].peer_id = calls[k].node

\* C3: a MakeTradeOffer or DirectMessage command whose peer_id is the local
\* peer id is answered with an error on its reply channel in the very step
\* that handles the command; that step sends no request on any protocol
\* (the network and the request-id counters are unchanged) and leaves
\* outgoing_trade_offers and the six pending tables unchanged.
C3_SelfAddressedRejected ==
    [][\A n \in Nodes : \A k \in 1..Len(calls) :
          (Handles(n, k) /\ SelfAddressed(k))
          => /\ Len(reply'[k]) = 1
             /\ IsErr(reply'[k][1])
             /\ net' = net
             /\ next_request_id' = next_request_id
             /\ outgoing_trade_offers' = outgoing_trade_offers
             /\ tables' = tables]_vars

\* Reached: a self-addressed trade offer and a self-addressed direct message
\* have both been handled and answered with an error.
C3_BothRejected ==
    \E k1 \in 1..Len(calls), k2 \in 1..Len(calls) :
        /\ calls[k1].kind = "MakeTradeOffer" /\ SelfAddressed(k1)
        /\ calls[k2].kind = "DirectMessage" /\ SelfAddressed(k2)
        /\ Received(k1) /\ reply[k1] # <<>> /\ IsErr(reply[k1][1])
        /\ Received(k2) /\ reply[k2] # <<>> /\ IsErr(reply[k2][1])

\* -------------------------------------------------------------------- C4

IsOffer(k) ==
    calls[k].kind = "MakeTradeOffer" /\ calls[k].peer_id # calls[k].node

IsAccept(k) == calls[k].kind = "RespondTrade" /\ calls[k].accept

\* The entry that offer call k put into its node's outgoing_trade_offers is
\* still there.
HoldsOutgoing(k) ==
    \E key \in DOMAIN outgoing_trade_offers[calls[k].node] :
        outgoing_trade_offers[calls[k].node][key].offered_file_bytes = k

\* Offer call k and respond call j are the two halves of one trade, and no
\* other offer between the two peers names the same files.
SameTrade(k, j) ==
    /\ IsOffer(k) /\ calls[j].kind = "RespondTrade"
    /\ calls[j].node = calls[k].peer_id /\ calls[j].peer_id = calls[k].node
    /\ calls[j].offered_file_name = calls[k].offered_file_name
    /\ calls[j].requested_file_name = calls[k].requested_file_name
    /\ \A i \in 1..Len(calls) :
           (IsOffer(i) /\ calls[i].node = calls[k].node
            /\ calls[i].peer_id = calls[k].peer_id
            /\ calls[i].offered_file_name = calls[k].offered_file_name
            /\ calls[i].requested_file_name = calls[k].requested_file_name)
           => i = k

\* C4: once a trade has failed (an outbound failure was reported for the
\* offer request, or for the response request) or completed (the settlement
\* channel has yielded the offered bytes), the offerer's
\* outgoing_trade_offers and the offeree's inbound_trade_offers hold no
\* entry for it.
C4_NoEntryAfterTrade ==
    /\ \A k \in 1..Len(calls) :
          (IsOffer(k) /\ reply[k] = <<Err("OutboundFailure")>>)
          => ~HoldsOutgoing(k)
    /\ \A k \in 1..Len(calls), j \in 1..Len(calls) :
          (/\ SameTrade(k, j) /\ IsAccept(j)
           /\ reply[j] \in {<<Err("OutboundFailure")>>, <<OkBytes(<<k>>)>>})
          => /\ ~HoldsOutgoing(k)
             /\ Tuple(j) \notin inbound_trade_offers[calls[j].node]

\* -------------------------------------------------------------------- C5

\* The offerer named by accept call j holds the bytes that j sent.
OffererHoldsRequested(j) ==
    \E path \in DOMAIN fs[calls[j].peer_id] :
        fs[calls[j].peer_id][path] = <<j>>

\* The settlement channel of accept call j has yielded offered bytes.
OffereeHoldsOffered(j) ==
    /\ reply[j] # <<>>
    /\ reply[j][1].tag = "Ok"
    /\ reply[j][1].bytes # <<>>

\* The trade that accept call j answers is over on both sides: the
\* settlement channel has yielded a value, the TradeResponse of j is
\* neither under way nor in the hands of a handler, and no answer to it is
\* under way.
Terminal(j) ==
    /\ reply[j] # <<>>
    /\ \A m \in net : ~(m.proto = "trade_response" /\ m.body.bytes = <<j>>)
    /\ \A m \in net : ~(m.proto = "trade_response" /\ m.type = "response"
                        /\ m.to = calls[j].node)
    /\ \A n \in Nodes :
           pc[n] # AtSelect => pc[n].req.body.bytes # <<j>>

\* C5: in every terminal state of a trade, the offerer holds the offeree's
\* requested bytes exactly if the offeree's settlement channel has yielded
\* the offerer's bytes: never exactly one side holds the other's payload.
C5_TradeIsAtomic ==
    \A j \in 1..Len(calls) :
        (IsAccept(j) /\ Terminal(j))
        => (OffererHoldsRequested(j) <=> OffereeHoldsOffered(j))

\* -------------------------------------------------------------------- C6

\* m is a TradeResponse request that node n can match with an entry of its
\* outgoing_trade_offers.
KnownTradeResponse(n, m) ==
    /\ m.type = "request" /\ m.proto = "trade_response" /\ m.to = n
    /\ <<m.from, TradeOffer(m.body.offered_file_name,
                            m.body.requested_file_name)>>
           \in DOMAIN outgoing_trade_offers[n]

TradeKey(m) ==
    <<m.from, TradeOffer(m.body.offered_file_name, m.body.requested_file_name)>>

\* This step is the handler of node n, parked on the InboundTradeResponse
\* event, being resumed and running to its end without a panic.
Resumes(n) ==
    /\ ~crashed[n] /\ pc[n] # AtSelect /\ pc[n].then = "trade_response"
    /\ pc'[n] = AtSelect
    /\ ~crashed'[n]

\* C6: the accepted trade, step by step.  (1) When the offerer takes a
\* TradeResponse carrying Some(r) for an entry of its outgoing_trade_offers
\* (the entry holds the offered bytes and destination path of the
\* MakeTradeOffer call that made it), it emits InboundTradeResponse with
\* was_accepted = TRUE.  (2) When its handler then runs to its end, the
\* file at that destination path holds exactly r and the answer carries
\* Some(the offered bytes).  (3) When the offeree takes an answer for a
\* pending settlement entry, the settlement channel yields Ok(what the
\* answer carried).
C6_AcceptedTradeDelivers ==
    [][/\ \A n \in Nodes : \A m \in net :
             (Takes(n, m) /\ KnownTradeResponse(n, m) /\ m.body.bytes # <<>>)
             => LET entry == outgoing_trade_offers[n][TradeKey(m)]
                    k == entry.offered_file_bytes
                IN /\ IsOffer(k) /\ calls[k].node = n
                   /\ <<calls[k].peer_id,
                        TradeOffer(calls[k].offered_file_name,
                                   calls[k].requested_file_name)>> = TradeKey(m)
                   /\ entry.requested_file_path = k
                   /\ event_channel'[n] =
                          <<Event("InboundTradeResponse", m.from,
                                  m.body.offered_file_name,
                                  m.body.requested_file_name, TRUE, "")>>
                   /\ pc'[n] = Emitting("trade_response", m, entry)
       /\ \A n \in Nodes :
             (Resumes(n) /\ pc[n].req.body.bytes # <<>>)
             => /\ pc[n].entry.requested_file_path \in DOMAIN fs'[n]
                /\ fs'[n][pc[n].entry.requested_file_path] =
                       pc[n].req.body.bytes
                /\ Response(pc[n].req,
                       Body(pc[n].req.body.offered_file_name,
                            pc[n].req.body.requested_file_name,
                            <<pc[n].entry.offered_file_bytes>>, ""))
                       \in net'
       /\ \A n \in Nodes : \A m \in net :
             (/\ Takes(n, m)
              /\ m.type = "response" /\ m.proto = "trade_response"
              /\ m.id \in DOMAIN pending_trade_response_response[n])
             => reply'[pending_trade_response_response[n][m.id]] =
                    <<OkBytes(m.body.bytes)>>
      ]_vars

\* Reached: an offer of k and its acceptance j, every message delivered (no
\* failure reported, no channel closed, no panic): the offerer's file at
\* the destination path of k holds the bytes of j and the settlement
\* channel of j has yielded Ok(Some(the bytes of k)).
C6_TradeSettled ==
    \E k \in 1..Len(calls), j \in 1..Len(calls) :
        /\ SameTrade(k, j) /\ IsAccept(j)
        /\ reply[j] = <<OkBytes(<<k>>)>>
        /\ k \in DOMAIN fs[calls[k].node]
        /\ fs[calls[k].node][k] = <<j>>
        /\ failed = {} /\ closed = {}
        /\ \A n \in Nodes : ~crashed[n]

\* -------------------------------------------------------------------- C7

\* The trade accepted by call j has completed successfully: its settlement
\* channel has yielded Ok(Some(bytes)).
CompletedSuccessfully(j) == IsAccept(j) /\ OffereeHoldsOffered(j)

C8_DeclinedTradeMovesNothing ==
    [][/\ \A n \in Nodes : \A m \in net :
             (Takes(n, m) /\ KnownTradeResponse(n, m) /\ m.body.bytes = <<>>)
             => /\ outgoing_trade_offers'[n] =
                       Remove(outgoing_trade_offers[n], TradeKey(m))
                /\ event_channel'[n] =
                       <<Event("InboundTradeResponse", m.from,
                               m.body.offered_file_name,
                               m.body.requested_file_name, FALSE, "")>>
                /\ fs' = fs
       /\ \A n \in Nodes :
             (Resumes(n) /\ pc[n].req.body.bytes = <<>>)
             => /\ fs' = fs
                /\ Response(pc[n].req,
                       Body(pc[n].req.body.offered_file_name,
                            pc[n].req.body.requested_file_name, <<>>, ""))
                       \in net'
       /\ \A n \in Nodes : \A m \in net :
             (/\ Takes(n, m)
              /\ m.type = "response" /\ m.proto = "trade_response"
              /\ m.body.bytes = <<>>)
             => /\ fs' = fs
                /\ m.id \in DOMAIN pending_trade_response_response[n]
                   => reply'[pending_trade_response_response[n][m.id]] =
                          <<OkBytes(<<>>)>>
       /\ \A n \in Nodes : \A k \in 1..Len(calls) :
             (Handles(n, k) /\ calls[k].kind = "RespondTrade"
              /\ ~calls[k].accept)
             => fs' = fs
      ]_vars

\* Reached: a decline of an offer that was in the offerer's
\* outgoing_trade_offers has been answered: the answer without bytes is
\* under way, the entry is gone, and neither side has a file.
C8_DeclineAnswered ==
    \E k \in 1..Len(calls), j \in 1..Len(calls) :
        /\ SameTrade(k, j) /\ ~calls[j].accept
        /\ \E m \in net :
              /\ m.type = "response" /\ m.proto = "trade_response"
              /\ m.to = calls[j].node /\ m.body.bytes = <<>>
        /\ ~HoldsOutgoing(k)
        /\ \A n \in Nodes : fs[n] = EmptyMap

\* -------------------------------------------------------------------- C9

\* C9: a RespondTrade command, accept or decline, for a tuple that is not
\* in inbound_trade_offers sends no TradeResponse, adds no entry to
\* pending_trade_response_response, and makes the Client method that sent
\* it return an error (decline_trade included).
C9_UnknownTupleFailsCaller ==
    [][\A n \in Nodes : \A k \in 1..Len(calls) :
          (/\ Handles(n, k)
           /\ calls[k].kind = "RespondTrade"
           /\ Tuple(k) \notin inbound_trade_offers[n])
          => /\ net' = net
             /\ next_request_id' = next_request_id
             /\ pending_trade_response_response' =
                    pending_trade_response_response
             /\ ClientReturned(k)' # <<>>
             /\ IsErr(ClientReturned(k)'[1])]_vars

\* ------------------------------------------------------------------- C10

\* This step is node n taking the TradeResponse request m for a tuple that
\* is not in its outgoing_trade_offers.
TakesUnknownTradeResponse(n, m) ==
    /\ Takes(n, m)
    /\ m.type = "request" /\ m.proto = "trade_response"
    /\ <<m.from, TradeOffer(m.body.offered_file_name,
                            m.body.requested_file_name)>>
           \notin DOMAIN outgoing_trade_offers[n]

\* C10: a TradeResponse from peer p for an offer o with (p, o) not in
\* outgoing_trade_offers is dropped in silence: no event is put on the event
\* channel and the handler does not wait, no file is written, no
\* TradeResponseResponse (so no offered bytes) is sent, no reply channel is
\* signaled, and outgoing_trade_offers, inbound_trade_offers and the six
\* pending tables are unchanged.
C10_UnknownTradeResponseDropped ==
    [][\A n \in Nodes : \A m \in net :
          TakesUnknownTradeResponse(n, m)
          => /\ net' = net \ {m}
             /\ event_channel' = event_channel
             /\ pc' = pc
             /\ fs' = fs
             /\ reply' = reply
             /\ crashed' = crashed
             /\ trades' = trades
             /\ tables' = tables]_vars

\* Reached: an accept of B is still waiting for its settlement although its
\* TradeResponse has left the network, no handler holds it, no answer to it
\* is on its way and no failure was reported for it: the offerer took it
\* when the tuple was no longer in its outgoing_trade_offers (an earlier
\* response for the same tuple had consumed the entry) and dropped it.
C10_ResponseWasDropped ==
    \E n \in Nodes : \E r \in DOMAIN pending_trade_response_response[n] :
        /\ \A m \in net : ~(m.proto = "trade_response" /\ m.id = r
                            /\ ReqKey(m).node = n)
        /\ \A x \in Nodes : pc[x] = AtSelect /\ ~crashed[x]
        /\ [node |-> n, proto |-> "trade_response", id |-> r] \notin failed

\* ------------------------------------------------------------------- C11

\* The (username, peer id) pairs of the two maps of node n's UsernameStore.
Forward(n) ==
    {<<u, username_store[n].username_peer_id_map[u]>> :
        u \in DOMAIN username_store[n].username_peer_id_map}

Reverse(n) ==
    {<<username_store[n].peer_id_username_map[p], p>> :
        p \in DOMAIN username_store[n].peer_id_username_map}

\* C11: after any sequence of UsernameStore.insert calls the forward and the
\* reverse map are exact inverses: (u, p) is in the forward map if and only
\* if (p, u) is in the reverse map.
C11_MapsAreInverses == \A n \in Nodes : Forward(n) = Reverse(n)

\* ------------------------------------------------------------------- C12

\* C12: a lookup that follows insert(username, peer_id) on the same store
\* returns what was inserted: get_peer_id of any case variation of username
\* returns peer_id, and get_username(peer_id) returns username.
C12_LookupAfterInsert ==
    [][(/\ store_call.op = "insert"
        /\ store_call' # store_call
        /\ store_call'.node = store_call.node)
       => /\ (/\ store_call'.op = "get_peer_id"
              /\ to_lowercase(store_call'.username)
                    = to_lowercase(store_call.username))
             => store_call'.result = <<SomePeer(store_call.peer_id)>>
          /\ (/\ store_call'.op = "get_username"
              /\ store_call'.peer_id = store_call.peer_id)
             => store_call'.result = <<SomeName(store_call.username)>>]_vars

\* ------------------------------------------------------------------- C13

\* The latest store call is a lookup of a key that its map does not hold.
LookupOfUncachedKey ==
    \/ /\ store_call.op = "get_peer_id"
       /\ store_call.username \notin
              DOMAIN username_store[store_call.node].username_peer_id_map
    \/ /\ store_call.op = "get_username"
       /\ store_call.peer_id \notin
              DOMAIN username_store[store_call.node].peer_id_username_map

\* C13: a lookup of a key that is not cached returns None, leaves the store
\* as it was and does not abort.
C13_LookupsAreTotal ==
    [][(store_call' # store_call /\ LookupOfUncachedKey')
       => /\ store_call'.result = <<None>>
          /\ username_store' = username_store
          /\ poisoned' = poisoned]_vars

\* ------------------------------------------------------------------- C14

\* This step is a cached lookup of the Client (get_peer_id or get_username).
CachedLookup ==
    /\ store_call' # store_call
    /\ store_call'.op \in {"Client::get_peer_id", "Client::get_username"}

\* The key of the cached lookup of this step is in the store.
CacheHit ==
    IF store_call'.op = "Client::get_peer_id"
    THEN store_call'.username \in
             DOMAIN username_store[store_call'.node].username_peer_id_map
    ELSE store_call'.peer_id \in
             DOMAIN username_store[store_call'.node].peer_id_username_map

\* The value the store holds for the key of the cached lookup of this step.
CachedValue ==
    IF store_call'.op = "Client::get_peer_id"
    THEN SomePeer(username_store[store_call'.node]
                      .username_peer_id_map[store_call'.username])
    ELSE OkName(username_store[store_call'.node]
                    .peer_id_username_map[store_call'.peer_id])

\* This step enqueues exactly one Command, the Find... command for the key
\* of the cached lookup.
EnqueuesFind ==
    /\ Len(calls') = Len(calls) + 1
    /\ command_channel' =
           [command_channel EXCEPT
               ![store_call'.node] = Append(@, Len(calls) + 1)]
    /\ LET cmd == calls'[Len(calls')] IN
       IF store_call'.op = "Client::get_peer_id"
       THEN cmd.kind = "FindPeerId" /\ cmd.username = store_call'.username
       ELSE cmd.kind = "FindPeerUsername" /\ cmd.peer_id = store_call'.peer_id

\* On a hit no Command is enqueued and the cached value is returned.
HitReturnsCached ==
    (CachedLookup /\ CacheHit)
    => /\ calls' = calls
       /\ command_channel' = command_channel
       /\ store_call'.result = <<CachedValue>>

\* On a miss exactly one Find... command is enqueued.
MissEnqueuesFind == (CachedLookup /\ ~CacheHit) => EnqueuesFind

\* When find_user or find_peer_username returns, a successful result is in
\* the store and a failed one (None, Err) has changed nothing.
ResultIsCached ==
    \A k \in finished' \ finished :
        LET n == calls[k].node
            v == reply[k][1]
        IN
        ~poisoned[n] =>
            CASE v.tag = "Some" ->
                     <<calls[k].username, v.peer>> \in Forward(n)'
                     /\ <<calls[k].username, v.peer>> \in Reverse(n)'
              [] v.tag = "Ok" ->
                     <<v.name, calls[k].peer_id>> \in Forward(n)'
                     /\ <<v.name, calls[k].peer_id>> \in Reverse(n)'
              [] OTHER -> username_store' = username_store

\* C14: a cached lookup of the Client (get_peer_id, get_username) returns
\* the cached value and enqueues no Command on a hit; on a miss it enqueues
\* exactly one FindPeerId / FindPeerUsername command, whose successful
\* result is in the UsernameStore before the call returns, while a failed
\* one (None / Err) inserts nothing.
C14_CachedLookup ==
    [][HitReturnsCached /\ MissEnqueuesFind /\ ResultIsCached]_vars

\* ------------------------------------------------------------------- C15

\* Call k is a find_user: its Command is a FindPeerId.
IsFindPeerId(k) == k <= Len(calls) /\ calls[k].kind = "FindPeerId"

\* The records the DHT holds for username u.
RecordsOf(u) == {r \in dht : r.key = Utf8Bytes(to_lowercase(u))}

\* Nobody has registered u.
Unregistered(u) == RecordsOf(u) = {}

\* Every record the DHT holds for u was registered by p, and there is one.
RegisteredTo(u, p) ==
    /\ RecordsOf(u) # {}
    /\ \A r \in RecordsOf(u) : r.value = PeerIdBytes(p)

\* This step is the overlay reporting to node n a record found by query id.
ReportsRecord(n, id) ==
    /\ Running(n)
    /\ \E q \in queries :
          /\ q.node = n /\ q.id = id /\ q.kind = "get"
          /\ [q EXCEPT !.found = TRUE] \in queries'
          /\ queries' \ {[q EXCEPT !.found = TRUE]} = queries \ {q}

\* Nothing is remembered of earlier lookups: every FindPeerId received
\* starts a DHT query of its own for the username and is not answered on
\* the spot, and a record reported for the query of a FindPeerId whose
\* username is registered to p alone resolves it to Some(p).
NothingRemembered ==
    /\ \A k \in 1..Len(calls) :
          (IsFindPeerId(k) /\ Handles(calls[k].node, k))
          => /\ reply' = reply
             /\ \E q \in queries' \ queries :
                   /\ q.node = calls[k].node /\ q.kind = "get"
                   /\ q.key = Utf8Bytes(to_lowercase(calls[k].username))
                   /\ pending_peer_id_request'[q.node][q.id] = k
    /\ \A n \in Nodes : \A id \in DOMAIN pending_peer_id_request[n] :
          \A p \in Nodes :
              LET k == pending_peer_id_request[n][id] IN
              (ReportsRecord(n, id) /\ RegisteredTo(calls[k].username, p))
              => reply'[k] = <<SomePeer(p)>>

LoopState ==
    <<reply, tables, trades, has_registered_username, fs, event_channel, pc,
      crashed>>

\* The replies that the records held under `key` can give to a FindPeerId:
\* Some(p) for a value that is the bytes of peer id p, None for any other.
PeerIdReplies(key) ==
    {IF r.value.enc = "peer_id" THEN SomePeer(r.value.peer) ELSE None :
        r \in {x \in dht : x.key = key}}

\* The replies that the records held under `key` can give to a
\* FindPeerUsername: Ok(u) for a value that is UTF-8, Err for any other.
UsernameReplies(key) ==
    {IF r.value.enc = "utf8" THEN OkName(r.value.name)
                             ELSE Err("FromUtf8Error") :
        r \in {x \in dht : x.key = key}}

\* This step reports the first record found by the get query q.
FirstRecord(q) ==
    /\ ~q.found
    /\ queries' = (queries \ {q}) \cup {[q EXCEPT !.found = TRUE]}

\* This step reports the end of the get query q (finished, or an error).
QueryEnds(q) == queries' = queries \ {q}

\* C16: of the progress events of a DHT get query only the first FoundRecord
\* fulfills the reply (FindPeerId: Some(p), or None when the value is no
\* peer id; FindPeerUsername: Ok(u), or Err when the value is not UTF-8) and
\* removes the pending entry; every later progress event with the query's id
\* (found record, finished, error) signals nothing and changes no state.
C16_FirstRecordFulfills ==
    [][\A q \in queries :
          (q.kind = "get" /\ Running(q.node))
          => /\ (FirstRecord(q)
                   /\ q.id \in DOMAIN pending_peer_id_request[q.node])
                => LET k == pending_peer_id_request[q.node][q.id] IN
                   /\ reply[k] = <<>>
                   /\ Len(reply'[k]) = 1
                   /\ reply'[k][1] \in PeerIdReplies(q.key)
                   /\ q.id \notin DOMAIN pending_peer_id_request'[q.node]
             /\ (FirstRecord(q)
                   /\ q.id \in DOMAIN pending_username_request[q.node])
                => LET k == pending_username_request[q.node][q.id] IN
                   /\ reply[k] = <<>>
                   /\ Len(reply'[k]) = 1
                   /\ reply'[k][1] \in UsernameReplies(q.key)
                   /\ q.id \notin DOMAIN pending_username_request'[q.node]
             /\ (q.found /\ (QueryEnds(q) \/ queries' = queries))
                => /\ q.id \notin DOMAIN pending_peer_id_request[q.node]
                   /\ q.id \notin DOMAIN pending_username_request[q.node]
                   /\ QueryEnds(q) => LoopState' = LoopState]_vars

\* Both kinds of lookup were resolved by a first record, one to a decoded
\* value and one to the value of a foreign record that does not decode,
\* and the overlay has since reported the end of every query.
C16_ResolvedAndEnded ==
    /\ queries = {}
    /\ \E k \in 1..Len(calls) :
          IsFindPeerId(k) /\ Len(reply[k]) = 1 /\ reply[k][1].tag = "Some"
    /\ \E k \in 1..Len(calls) :
          /\ calls[k].kind = "FindPeerUsername"
          /\ reply[k] = <<Err("FromUtf8Error")>>

\* ------------------------------------------------------------------- C17

\* The EventLoop of node n is emitting a RegistrationRequest event.
EmitsRegistrationRequest(n) ==
    /\ event_channel[n] # <<>>
    /\ event_channel[n][1].type = "RegistrationRequest"

\* C17: once the EventLoop of a node has emitted a RegistrationRequest
\* event it never emits another one, whatever routing-table updates and
\* PutRecord completions follow.
C17_OneRegistrationRequest ==
    \A n \in Nodes :
        [](EmitsRegistrationRequest(n)
           => [](~EmitsRegistrationRequest(n)
                 => []~EmitsRegistrationRequest(n)))

\* ------------------------------------------------------------------- C18

\* C18: no sequence of commands and overlay events makes the EventLoop of a
\* node terminate abnormally: a peer connection closing before an ack or a
\* TradeResponseResponse is sent, and a response or failure for an id that
\* is no longer pending, are survived.
C18_NoAbnormalTermination == \A n \in Nodes : ~crashed[n]

\* ------------------------------------------------------------------- C19

\* This step is the EventLoop receiving the Command of call k.
Receives(k) == ~Received(k) /\ Received(k)'

\* C19: the EventLoop of a node receives and handles the Commands in the
\* order in which they were enqueued: the Command it takes is the one
\* enqueued before every other Command still in its queue (calls are
\* numbered in the order of their enqueueing), whatever overlay events it
\* has handled in between.
C19_CommandsInEnqueueOrder ==
    [][\A k \in 1..Len(calls) :
          Receives(k)
          => /\ Handles(calls[k].node, k)
             /\ \A j \in 1..Len(calls) :
                   (calls[j].node = calls[k].node /\ ~Received(j)) => k <= j]_vars

\* Two Commands of one node were received, and the EventLoop handled the
\* overlay's completion of the first one.
C19_TwoCommandsAndAnEvent ==
    \E j, k \in 1..Len(calls) :
        /\ j < k
        /\ calls[j].node = calls[k].node
        /\ Received(j) /\ Received(k)
        /\ calls[j].kind \in {"RegisterUsername", "FindPeerId", "DirectMessage"}
        /\ calls[j].peer_id # calls[j].node
        /\ reply[j] # <<>>
        /\ calls[k].kind = "MakeTradeOffer"
        /\ HoldsOutgoing(k)

\* ------------------------------------------------------------------- C20

\* This step is a response or an outbound failure of one of the three
\* request/response protocols, reported to node n for a request id that is
\* not in the protocol's pending table.
UnknownRequestId(n) ==
    \/ \E m \in net :
          /\ Takes(n, m) /\ m.type = "response"
          /\ m.id \notin DOMAIN Table(TableOf(m.proto))[n]
    \/ \E key \in failed' \ failed :
          /\ key.node = n
          /\ key.id \notin DOMAIN Table(TableOf(key.proto))[n]

\* C20: a response or outbound-failure event of /direct-message/1,
\* /trade-offer/1 or /trade-response/1 whose request id is not in the
\* pending table is dropped: no reply is signaled, no state of the EventLoop
\* changes, and the handler does not fail.
C20_UnknownIdDropped ==
    [][\A n \in Nodes : UnknownRequestId(n) => LoopState' = LoopState]_vars

\* ------------------------------------------------------------------- C21

\* The EventLoop of node n is sending `type` on its event channel.
EmitsEvent(n, type) ==
    /\ event_channel[n] # <<>>
    /\ event_channel[n][1].type = type

\* In this step the EventLoop of n takes the inbound request m of `proto`.
TakesRequest(n, m, proto) ==
    /\ m \in net /\ m \notin net'
    /\ m.type = "request" /\ m.proto = proto /\ m.to = n
    /\ Running(n)

\* C21: the step in which the EventLoop takes an inbound /direct-message/1
\* request and starts emitting InboundDirectMessage{peer_id, message} has
\* already sent the empty response: the acknowledgement is under way while
\* the event still waits for the local consumer.
C21_AckBeforeEvent ==
    [][\A n \in Nodes, m \in net :
          (TakesRequest(n, m, "direct_messaging")
           /\ EmitsEvent(n, "InboundDirectMessage")')
          => /\ event_channel'[n][1].peer_id = m.from
             /\ event_channel'[n][1].message = m.body.message
             /\ Response(m, NoResponse) \in net']_vars

\* ------------------------------------------------------------------- C22

\* The TradeOffer an inbound /trade-offer/1 request carries.
OfferOf(m) == TradeOffer(m.body.offered_file_name, m.body.requested_file_name)

\* In this step the EventLoop of n takes the inbound response m of `proto`.
TakesResponse(n, m, proto) ==
    /\ m \in net /\ m \notin net'
    /\ m.type = "response" /\ m.proto = proto /\ m.to = n
    /\ Running(n)

\* In this step the overlay reports to n the OutboundFailure of its request
\* `id` of `proto`.
ReportsFailure(n, proto, id) ==
    /\ [node |-> n, proto |-> proto, id |-> id] \in failed' \ failed
    /\ Running(n)

\* C22: the step in which an offeree takes an inbound /trade-offer/1 request
\* from A either fails at the ack (nothing is recorded, nothing emitted) or
\* has sent the empty ack, holds (A, offer) in inbound_trade_offers and is
\* emitting InboundTradeOffer for it; on the offerer the ack for a pending
\* request signals Ok(()) on the call's reply channel and removes the entry,
\* and an OutboundFailure for a pending request signals Err and removes it.
C22_TradeOfferAcknowledged ==
    [][/\ \A n \in Nodes, m \in net :
             TakesRequest(n, m, "trade_offering")
             => IF crashed'[n]
                THEN /\ inbound_trade_offers' = inbound_trade_offers
                     /\ event_channel' = event_channel
                     /\ Response(m, NoResponse) \notin net'
                ELSE /\ Response(m, NoResponse) \in net'
                     /\ inbound_trade_offers'[n] =
                            inbound_trade_offers[n] \cup {<<m.from, OfferOf(m)>>}
                     /\ event_channel'[n] =
                            <<Event("InboundTradeOffer", m.from,
                                    m.body.offered_file_name,
                                    m.body.requested_file_name, FALSE, "")>>
                     /\ pc'[n] # AtSelect
       /\ \A n \in Nodes, m \in net :
             (/\ TakesResponse(n, m, "trade_offering")
              /\ m.id \in DOMAIN pending_trade_offer_request[n])
             => /\ reply' = [reply EXCEPT
                       ![pending_trade_offer_request[n][m.id]] = <<Ok>>]
                /\ pending_trade_offer_request'[n] =
                       Remove(pending_trade_offer_request[n], m.id)
       /\ \A n \in Nodes : \A id \in DOMAIN pending_trade_offer_request[n] :
             ReportsFailure(n, "trade_offering", id)
             => /\ reply' = [reply EXCEPT
                       ![pending_trade_offer_request[n][id]] =
                           <<Err("OutboundFailure")>>]
                /\ pending_trade_offer_request'[n] =
                       Remove(pending_trade_offer_request[n], id)]_vars

\* One offer was acknowledged (its call got Ok and the offeree holds it) and
\* another failed (its call got Err).
C22_OneAckedOneFailed ==
    \E k, j \in 1..Len(calls) :
        /\ calls[k].kind = "MakeTradeOffer" /\ calls[j].kind = "MakeTradeOffer"
        /\ reply[k] = <<Ok>>
        /\ reply[j] = <<Err("OutboundFailure")>>
        /\ <<calls[k].node, TradeOffer(calls[k].offered_file_name,
                                       calls[k].requested_file_name)>>
               \in inbound_trade_offers[calls[k].peer_id]

\* ------------------------------------------------------------------- C23

\* In this step the EventLoop of n receives the Command of call k.
ReceivesCommand(n, k) ==
    /\ Running(n)
    /\ command_channel[n] # <<>>
    /\ Head(command_channel[n]) = k
    /\ command_channel'[n] = Tail(command_channel[n])

\* In this step the overlay reports to n the end of its put query q.
PutCompletes(n, q) ==
    /\ q \in queries /\ q \notin queries'
    /\ q.node = n /\ q.kind = "put"
    /\ Running(n)

Cached(store, username, peer_id) ==
    /\ get_username(store, peer_id) = SomeName(username)
    /\ get_peer_id(store, username) = SomePeer(peer_id)

\* C24: the step in which the EventLoop handles the first record found for
\* an id in pending_username_request, the value being UTF-8, sends
\* Ok(username) and leaves (username, peer_id) in the node's UsernameStore;
\* the step in which a get query ends without a record while its id is
\* pending sends None to a FindPeerId and Err to a FindPeerUsername.
C24_FoundUsernameCached ==
    [][\A q \in queries :
          (q.kind = "get" /\ Running(q.node))
          => /\ (FirstRecord(q)
                   /\ q.id \in DOMAIN pending_username_request[q.node])
                => LET k == pending_username_request[q.node][q.id] IN
                   /\ reply'[k][1] \in UsernameReplies(q.key)
                   /\ reply'[k][1].tag = "Ok"
                      => Cached(username_store'[q.node], reply'[k][1].name,
                                calls[k].peer_id)
             /\ (QueryEnds(q) /\ ~q.found
                   /\ q.id \in DOMAIN pending_peer_id_request[q.node])
                => reply'[pending_peer_id_request[q.node][q.id]] = <<None>>
             /\ (QueryEnds(q) /\ ~q.found
                   /\ q.id \in DOMAIN pending_username_request[q.node])
                => reply'[pending_username_request[q.node][q.id]]
                       = <<Err("GetRecordError")>>]_vars

\* ------------------------------------------------------------------- C25

\* C25: the step in which the overlay reports the OutboundFailure of a
\* request whose id is pending, on any of the three protocols, signals Err
\* on the reply channel of that entry (until then empty) and removes that
\* entry alone: every other entry of every pending table, every other reply
\* channel, the commands still enqueued, both trade tables, the files and
\* the UsernameStore stay as they are, and the EventLoop keeps running.
C25_FailureTouchesOneEntry ==
    [][\A n \in Nodes, proto \in Protocols :
          \A id \in DOMAIN Table(TableOf(proto))[n] :
             ReportsFailure(n, proto, id)
             => LET k == Table(TableOf(proto))[n][id] IN
                /\ reply[k] = <<>>
                /\ reply' = [reply EXCEPT ![k] = <<Err("OutboundFailure")>>]
                /\ Table(TableOf(proto))'
                       = [Table(TableOf(proto)) EXCEPT ![n] = Remove(@, id)]
                /\ \A t \in TableNames \ {TableOf(proto)} :
                       Table(t)' = Table(t)
                /\ trades' = trades
                /\ cache' = cache
                /\ command_channel' = command_channel
                /\ fs' = fs /\ net' = net
                /\ event_channel' = event_channel
                /\ Running(n)']_vars

\* A request failed and its call got Err while another request of the same
\* node and protocol is still pending, its reply channel empty.
C25_OneFailedOnePending ==
    \E k \in 1..Len(calls) :
        \E id \in DOMAIN pending_request_message[calls[k].node] :
            LET j == pending_request_message[calls[k].node][id] IN
            /\ calls[k].kind = "DirectMessage"
            /\ reply[k] = <<Err("OutboundFailure")>>
            /\ j # k
            /\ reply[j] = <<>>

\* ------------------------------------------------------------------- C26

\* The MakeTradeOffer calls of node n for the tuple `key` that its EventLoop
\* has received.
OffersReceived(n, key) ==
    {k \in 1..Len(calls) : /\ IsOffer(k) /\ calls[k].node = n
                           /\ Tuple(k) = key /\ Received(k)}

\* The latest of a non-empty set of calls.
Latest(S) == CHOOSE k \in S : \A i \in S : i <= k

\* What a MakeTradeOffer call puts into outgoing_trade_offers: its own
\* offered bytes and destination path.
EntryOf(k) == [offered_file_bytes |-> k, requested_file_path |-> k]

\* C26: outgoing_trade_offers has one entry per (recipient, TradeOffer)
\* tuple, and it carries the offered bytes and destination path of the
\* latest MakeTradeOffer received for the tuple: a repeated MakeTradeOffer
\* overwrites the entry in place.  The TradeResponse that finds the entry
\* removes it and is served from it (the requested bytes go to that path,
\* the answer carries those offered bytes); a TradeResponse for a tuple
\* without entry is dropped: no event, no file, no answer, no reply.
C26_RepeatedOfferOverwrites ==
    [][/\ \A n \in Nodes : \A key \in DOMAIN outgoing_trade_offers[n] :
             /\ OffersReceived(n, key) # {}
             /\ outgoing_trade_offers[n][key]
                    = EntryOf(Latest(OffersReceived(n, key)))
       /\ \A n \in Nodes, k \in 1..Len(calls) :
             (ReceivesCommand(n, k) /\ IsOffer(k)
              /\ Tuple(k) \in DOMAIN outgoing_trade_offers[n])
             => /\ DOMAIN outgoing_trade_offers'[n]
                       = DOMAIN outgoing_trade_offers[n]
                /\ outgoing_trade_offers'[n][Tuple(k)] = EntryOf(k)
                /\ outgoing_trade_offers[n][Tuple(k)].offered_file_bytes < k
       /\ \A n \in Nodes, m \in net :
             TakesRequest(n, m, "trade_response")
             => IF TradeKey(m) \in DOMAIN outgoing_trade_offers[n]
                THEN /\ outgoing_trade_offers'[n]
                            = Remove(outgoing_trade_offers[n], TradeKey(m))
                     /\ pc'[n] = Emitting("trade_response", m,
                            EntryOf(Latest(OffersReceived(n, TradeKey(m)))))
                ELSE /\ net' = net \ {m}
                     /\ reply' = reply /\ fs' = fs /\ pc' = pc
                     /\ event_channel' = event_channel
                     /\ trades' = trades /\ tables' = tables
       /\ \A n \in Nodes :
             (Resumes(n) /\ pc[n].req.body.bytes # <<>>)
             => /\ fs'[n] = Put(fs[n], pc[n].entry.requested_file_path,
                                pc[n].req.body.bytes)
                /\ Response(pc[n].req,
                       Body(pc[n].req.body.offered_file_name,
                            pc[n].req.body.requested_file_name,
                            <<pc[n].entry.offered_file_bytes>>, ""))
                     \in net']_vars

\* A offered the same files to B twice before B's first TradeResponse was
\* taken.  That response was served from the later offer (its path holds
\* the requested bytes, the settlement yields its offered bytes, the path of
\* the earlier offer holds nothing) and B's second TradeResponse was
\* dropped unanswered.
C26_ServedFromLaterOffer ==
    \E k1, k2, j1, j2 \in 1..Len(calls) :
        /\ k1 < k2 /\ j1 < j2
        /\ IsOffer(k1) /\ IsOffer(k2)
        /\ calls[k1].node = calls[k2].node /\ Tuple(k1) = Tuple(k2)
        /\ IsAccept(j1) /\ IsAccept(j2)
        /\ calls[j1].node = calls[k1].peer_id
        /\ calls[j2].node = calls[k1].peer_id
        /\ k2 \in DOMAIN fs[calls[k1].node]
        /\ fs[calls[k1].node][k2] = <<j1>>
        /\ k1 \notin DOMAIN fs[calls[k1].node]
        /\ reply[j1] = <<OkBytes(<<k2>>)>>
        /\ Received(j2)
        /\ reply[j2] = <<>>
        /\ \A m \in net : m.proto # "trade_response"
        /\ \A n \in Nodes : pc[n] = AtSelect
        /\ outgoing_trade_offers[calls[k1].node] = EmptyMap

\* ------------------------------------------------------------------- C27

\* Node n handles a rendezvous Discovered event in this step and its
\* handler returns.
HandlesDiscovered(n) ==
    /\ answered'[n] = answered[n] + 1
    /\ swarm_event'.type = "Discovered"
    /\ swarm_event'.node = n
    /\ ~crashed'[n]

\* The address was dialed by node n with the /p2p/<peer_id> suffix.
DialedWithSuffix(dials, address, peer_id) ==
    \E d \in dials :
        /\ d.base = address.base
        /\ d.p2p # <<>>
        /\ d.p2p[Len(d.p2p)] = peer_id
        /\ \/ d.p2p = address.p2p
           \/ d.p2p = Append(address.p2p, peer_id)

\* C27: on every rendezvous Discovered event the cookie is stored and, for
\* every registration of a peer other than the local node, however many
\* registrations the event carries and wherever the local node's own
\* registration stands in the list, every advertised address is dialed with
\* the /p2p/<peer_id> suffix and the peer is added to the gossip explicit
\* peers and to the DHT routing table.
C27_EveryRegistrationDialed ==
    [][\A n \in Nodes :
          HandlesDiscovered(n) =>
             /\ cookie'[n] = <<swarm_event'.cookie>>
             /\ \A r \in Range(swarm_event'.registrations) :
                   r.peer_id # n =>
                      /\ r.peer_id \in explicit_peers'[n]
                      /\ \A a \in Range(r.addresses) :
                            /\ DialedWithSuffix(dialed'[n], a, r.peer_id)
                            /\ <<r.peer_id, a>> \in routing_table'[n]]_vars

\* ------------------------------------------------------------------- C28

\* The last rendezvous request node n has sent after this step.
LastRequest(n) == rendezvous_requests'[n][Len(rendezvous_requests'[n])]

Delivered == gossip \ gossip'

\* What node n's publication of the text of call k puts on the mesh.
Published(n, k) ==
    {ChatMessage(p, n, Utf8Bytes(calls[k].message)) : p \in Nodes \ {n}}

\* C29: the step in which the EventLoop receives a SendChatMessage command
\* signals the publish status on the command's reply channel, Ok when the
\* message was published and the publish error when it was not, and leaves
\* the pending tables unchanged.  Every step in which the overlay hands a
\* gossip message to a node hands one message and starts emitting exactly
\* one event, InboundChat with the peer id of the propagation source and
\* the text of the message; no InboundChat event is emitted otherwise.
C29_ChatSynchronous ==
    [][/\ \A n \in Nodes, k \in 1..Len(calls) :
             ReceivesCommand(n, k) /\ calls[k].kind = "SendChatMessage" =>
                /\ reply[k] = <<>>
                /\ Len(reply'[k]) = 1
                /\ reply'[k][1] \in {Ok, Err("PublishError")}
                /\ reply'[k][1] = Ok =>
                      /\ Published(n, k) \subseteq gossip'
                      /\ gossip' \subseteq gossip \cup Published(n, k)
                /\ reply'[k][1] # Ok => gossip' = gossip
                /\ tables' = tables
                /\ pc'[n] = AtSelect
       /\ \A m \in Delivered :
             /\ Delivered = {m}
             /\ event_channel[m.to] = <<>>
             /\ Len(event_channel'[m.to]) = 1
             /\ event_channel'[m.to][1].type = "InboundChat"
             /\ event_channel'[m.to][1].peer_id = m.propagation_source
             /\ m.data.enc = "utf8" =>
                   event_channel'[m.to][1].message = m.data.name
             /\ \A n \in Nodes \ {m.to} : event_channel'[n] = event_channel[n]
       /\ \A n \in Nodes :
             (event_channel'[n] # event_channel[n] /\ event_channel'[n] # <<>>)
                => \E m \in Delivered : m.to = n
      ]_vars

\* A's message was published with status Ok and B's application is being
\* handed the InboundChat event for it, while B's own publication has
\* failed with the publish error.
C29_ChatReceived ==
    \E k, j \in 1..Len(calls) :
        /\ calls[k].node = "A" /\ calls[k].message = "hello"
        /\ reply[k] = <<Ok>>
        /\ event_channel["B"] =
               <<Event("InboundChat", "A", "", "", FALSE, "hello")>>
        /\ calls[j].node = "B"
        /\ reply[j] = <<Err("PublishError")>>

\* ------------------------------------------------------------------- C30

\* Node n handles an mDNS event of this type in this step.
HandlesMdns(n, type) ==
    /\ swarm_event' # swarm_event
    /\ swarm_event'.type = type
    /\ swarm_event'.node = n

\* The peers of an mDNS batch.
PeersOf(list) == {list[i][1] : i \in 1..Len(list)}

\* C30: an mDNS discovered batch adds every peer of the batch to the gossip
\* explicit peers and every (peer, address) of the batch to the DHT routing
\* table; an mDNS expired batch removes the peers of the batch from the
\* gossip explicit peers and nothing else: the DHT routing table, the
\* pending tables and the trade tables are unchanged.
C30_MdnsBatches ==
    [][\A n \in Nodes :
          /\ HandlesMdns(n, "MdnsDiscovered") =>
                /\ explicit_peers'[n] =
                       explicit_peers[n] \cup PeersOf(swarm_event'.list)
                /\ routing_table'[n] =
                       routing_table[n] \cup
                       {swarm_event'.list[i] :
                           i \in 1..Len(swarm_event'.list)}
          /\ HandlesMdns(n, "MdnsExpired") =>
                /\ explicit_peers'[n] =
                       explicit_peers[n] \ PeersOf(swarm_event'.list)
                /\ routing_table' = routing_table
                /\ tables' = tables
                /\ trades' = trades
      ]_vars

\* A peer found by mDNS has expired: it is no explicit peer any more, its
\* address is still in the routing table, and a trade offer to it is
\* still pending and recorded.
C30_ExpiredPeerStillRouted ==
    /\ swarm_event.type = "MdnsExpired"
    /\ swarm_event.node = "A"
    /\ "B" \in PeersOf(swarm_event.list)
    /\ "B" \notin explicit_peers["A"]
    /\ ForeignPeer \in explicit_peers["A"]
    /\ \E a \in routing_table["A"] : a[1] = "B"
    /\ pending_trade_offer_request["A"] # EmptyMap
    /\ outgoing_trade_offers["A"] # EmptyMap

\* ------------------------------------------------------------------- C31

\* The record key of the get query that the lookup of call k issues.
QueryKey(k) ==
    IF calls[k].kind = "FindPeerId"
    THEN Utf8Bytes(to_lowercase(calls[k].username))
    ELSE PeerIdBytes(calls[k].peer_id)

\* No query id of node n is in both lookup tables.
LookupIdsDisjoint(n) ==
    DOMAIN pending_peer_id_request[n]
        \cap DOMAIN pending_username_request[n] = {}

\* The <<table, id>> entries of node n that this step removes.
RemovedEntries(n) ==
    {x \in TableNames \X (1..(2 * Len(calls))) :
        /\ x[2] \in DOMAIN Table(x[1])[n]
        /\ x[2] \notin DOMAIN Table(x[1])'[n]}

\* C31: the key sets of the find-peer-id and the find-username pending
\* tables are disjoint in every reachable state, and a step that reports
\* progress of a get query resolves at most one pending entry: the entry of
\* a lookup table under the id of that query, whose command asked for the
\* key of that query; no other reply channel is signaled.
C31_LookupIdsDisjoint ==
    [][/\ \A n \in Nodes : LookupIdsDisjoint(n) /\ LookupIdsDisjoint(n)'
       /\ \A q \in queries \ queries' :
             q.kind = "get" =>
                /\ Cardinality(RemovedEntries(q.node)) <= 1
                /\ \A x \in RemovedEntries(q.node) :
                      /\ x[1] \in {"peer_id_request", "username_request"}
                      /\ x[2] = q.id
                      /\ QueryKey(Table(x[1])[q.node][x[2]]) = q.key
                      /\ Signaled = {Table(x[1])[q.node][x[2]]}
                /\ RemovedEntries(q.node) = {} => Signaled = {}
                /\ \A n \in Nodes \ {q.node} : RemovedEntries(n) = {}
      ]_vars

\* A FindPeerId and a FindPeerUsername of one node were pending together;
\* a record found for the query of the FindPeerUsername (its bytes are not
\* UTF-8) has resolved it and the FindPeerId is still pending.
C31_OneOfTwoResolved ==
    \E n \in Nodes, k, j \in 1..Len(calls) :
        /\ calls[k].kind = "FindPeerId" /\ calls[j].kind = "FindPeerUsername"
        /\ calls[k].node = n /\ calls[j].node = n
        /\ k < j
        /\ k \in {pending_peer_id_request[n][id] :
                     id \in DOMAIN pending_peer_id_request[n]}
        /\ pending_username_request[n] = EmptyMap
        /\ reply[k] = <<>>
        /\ reply[j] = <<StringFromUtf8(Junk)>>

\* ------------------------------------------------------------------- C32

\* The EventLoop of n is parked in event_sender.send while the application
\* task of n awaits a Client call: the task takes no Event before the call
\* returns, and the call returns only on something the EventLoop does.
ParkedOnBlockedApplication(n) ==
    /\ ~crashed[n]
    /\ pc[n] # AtSelect
    /\ event_channel[n] # <<>>
    /\ ~Idle(n)

\* C32: with channels of capacity 0 in both directions and one application
\* task per node that either awaits a Client call or takes an Event, no
\* reachable state has the EventLoop parked on emitting an Event while the
\* application task is blocked in a Client call that only the EventLoop can
\* complete.
C32_NoDeadlock == \A n \in Nodes : ~ParkedOnBlockedApplication(n)

\* ------------------------------------------------------------------- C33

\* The TradeResponseResponses that leave in this step with offered bytes.
Released ==
    {r \in net' \ net :
        /\ r.type = "response" /\ r.proto = "trade_response"
        /\ r.body.bytes # <<>>}

\* The offered bytes `bytes` that are under way to the offeree or were
\* handed to its accept_trade.
Holdings(bytes) ==
    {r \in net : /\ r.type = "response" /\ r.proto = "trade_response"
                 /\ r.body.bytes = <<bytes>>}
    \cup {k \in 1..Len(calls) :
             \E i \in 1..Len(reply[k]) : reply[k][i] = OkBytes(<<bytes>>)}

\* C33: offered bytes leave the offerer only in the TradeResponseResponse
\* that answers a TradeResponse of a peer p which carried requested bytes
\* and for which (p, offer) was in outgoing_trade_offers when it arrived;
\* they are the bytes of that entry, the entry is removed when the
\* TradeResponse is taken, so the bytes of one entry are released at most
\* once, never to another peer and never in answer to a decline.
C33_ReleasedOnlyToAcceptingPeer ==
    [][/\ \A r \in Released :
             LET n == r.from IN
             /\ pc[n] # AtSelect
             /\ pc[n].then = "trade_response"
             /\ pc[n].req.from = r.to
             /\ pc[n].req.id = r.id
             /\ pc[n].req.body.bytes # <<>>
             /\ r.body.bytes = <<pc[n].entry.offered_file_bytes>>
             /\ Cardinality(Released) = 1
       /\ \A n \in Nodes :
             (pc[n] = AtSelect /\ pc'[n] # AtSelect
                  /\ pc'[n].then = "trade_response") =>
                LET m == pc'[n].req
                    key == <<m.from, TradeOffer(m.body.offered_file_name,
                                                m.body.requested_file_name)>>
                IN
                /\ m \in net /\ m \notin net' /\ m.to = n
                /\ key \in DOMAIN outgoing_trade_offers[n]
                /\ pc'[n].entry = outgoing_trade_offers[n][key]
                /\ key \notin DOMAIN outgoing_trade_offers'[n]
       /\ \A k \in 1..Len(calls) : Cardinality(Holdings(k)') <= 1
      ]_vars

\* B's acceptance was served with the bytes of A's offer, whose entry is
\* gone, and a third peer's acceptance of the same offer is waiting at A.
C33_ServedOnceThirdPeerWaiting ==
    /\ \E k, j \in 1..Len(calls) :
          /\ calls[k].node = "B" /\ calls[k].kind = "RespondTrade"
          /\ calls[j].node = "A" /\ calls[j].kind = "MakeTradeOffer"
          /\ reply[k] = <<OkBytes(<<j>>)>>
    /\ ForeignAccept \in net
    /\ outgoing_trade_offers["A"] = EmptyMap
    /\ pc["A"] = AtSelect

\* ------------------------------------------------------------------- C34

\* The accept_trade calls whose settlement channel has yielded
\* Ok(Some(bytes)), with the MakeTradeOffer call whose bytes they are.
Settled ==
    {x \in (1..Len(calls)) \X (1..Len(calls)) :
        /\ calls[x[1]].kind = "RespondTrade"
        /\ calls[x[2]].kind = "MakeTradeOffer"
        /\ \E i \in 1..Len(reply[x[1]]) :
              reply[x[1]][i] = OkBytes(<<x[2]>>)}

\* C34: whenever the settlement channel of an accepting RespondTrade has
\* yielded Ok(Some(offered bytes)), the offerer holds the requested bytes
\* of that RespondTrade at the destination path of the offer the bytes
\* come from, and its outgoing_trade_offers holds that offer's entry no
\* more.
C34_WrittenBeforeSettled ==
    \A x \in Settled :
        LET accept == x[1]
            offer == x[2]
            offerer == calls[offer].node
        IN
        /\ calls[accept].peer_id = offerer
        /\ offer \in DOMAIN fs[offerer]
        /\ fs[offerer][offer] = <<accept>>
        /\ \A key \in DOMAIN outgoing_trade_offers[offerer] :
              outgoing_trade_offers[offerer][key].offered_file_bytes # offer

\* B's accept_trade has received the bytes A offered, and A has offered the
\* same files again since.
C34_SettledAndOfferedAgain ==
    /\ Settled # {}
    /\ outgoing_trade_offers["A"] # EmptyMap

\* ------------------------------------------------------------------- C35

\* The accept_trade calls (RespondTrade with requested bytes and a
\* settlement channel).
Accepts ==
    {k \in 1..Len(calls) : calls[k].kind = "RespondTrade" /\ calls[k].accept}

\* C35: the settlement channel of an accepting RespondTrade yields
\* Ok(Some(bytes)) or Err and never Ok(None), so accept_trade never returns
\* its "No bytes were received!" error.
C35_AcceptNeverYieldsNone ==
    \A k \in Accepts :
        /\ \A i \in 1..Len(reply[k]) :
              /\ reply[k][i] # OkBytes(<<>>)
              /\ \/ reply[k][i].tag = "Err"
                 \/ \E j \in 1..Len(calls) : reply[k][i] = OkBytes(<<j>>)
        /\ ClientReturned(k) # <<Err("No bytes were received!")>>

\* One accept_trade has returned the offered bytes and a later one for the
\* same tuple has failed because the tuple was no longer in
\* inbound_trade_offers.
C35_AcceptedAndRefused ==
    \E k, j \in Accepts :
        /\ reply[k] # <<>> /\ reply[k][1].tag = "Ok"
        /\ ClientReturned(k) = reply[k]
        /\ reply[j] = <<Err("No valid trade with this user")>>

\* ------------------------------------------------------------------- C36

\* C36: in every reachable state, an offer that node n holds in its
\* inbound_trade_offers as coming from peer p is in p's
\* outgoing_trade_offers as made to n.
C36_InboundImpliesOutgoing ==
    \A n \in Nodes : \A x \in inbound_trade_offers[n] :
        x[1] \in Nodes => <<n, x[2]>> \in DOMAIN outgoing_trade_offers[x[1]]

\* ------------------------------------------------------------------- C37

\* The TradeResponse requests node n sends in this step.
ResponsesSent(n) ==
    {m \in net' \ net :
        /\ m.type = "request" /\ m.proto = "trade_response" /\ m.from = n}

\* The tuple a RespondTrade command names.
TupleOf(k) ==
    <<calls[k].peer_id,
      TradeOffer(calls[k].offered_file_name, calls[k].requested_file_name)>>

\* C37: the offeree sends at most one TradeResponse per entry of
\* inbound_trade_offers.  A TradeResponse leaves only in the step that
\* receives a RespondTrade for a tuple that is in the table, and that step
\* removes the tuple.  A RespondTrade for a tuple that is not in the table
\* sends nothing, enters nothing in a pending table and, with a settlement
\* channel, yields Err.  A tuple enters the table only in the step that
\* takes an offer request with its key from its peer: in particular not
\* when the TradeResponse is reported failed.
C37_OneResponsePerEntry ==
    [][\A n \in Nodes :
          /\ ResponsesSent(n) # {} =>
                \E k \in 1..Len(calls) :
                   /\ ReceivesCommand(n, k)
                   /\ calls[k].kind = "RespondTrade"
                   /\ TupleOf(k) \in inbound_trade_offers[n]
                   /\ TupleOf(k) \notin inbound_trade_offers'[n]
                   /\ Cardinality(ResponsesSent(n)) = 1
          /\ \A k \in 1..Len(calls) :
                (/\ ReceivesCommand(n, k)
                 /\ calls[k].kind = "RespondTrade"
                 /\ TupleOf(k) \notin inbound_trade_offers[n]) =>
                   /\ net' = net
                   /\ tables' = tables
                   /\ trades' = trades
                   /\ calls[k].accept =>
                         /\ Len(reply'[k]) = 1
                         /\ reply'[k][1].tag = "Err"
          /\ \A x \in inbound_trade_offers'[n] \ inbound_trade_offers[n] :
                \E m \in net \ net' :
                   /\ m.type = "request" /\ m.proto = "trade_offering"
                   /\ m.to = n /\ m.from = x[1]
                   /\ x[2] = TradeOffer(m.body.offered_file_name,
                                        m.body.requested_file_name)
      ]_vars

\* B's TradeResponse was reported failed, and its second accept_trade for
\* the same tuple was refused: the tuple had left inbound_trade_offers
\* with the first.
C37_RefusedAfterFailure ==
    \E f, j \in Accepts :
        /\ f < j
        /\ calls[f].node = calls[j].node
        /\ TupleOf(f) = TupleOf(j)
        /\ reply[f] = <<Err("OutboundFailure")>>
        /\ reply[j] = <<Err("No valid trade with this user")>>

\* ------------------------------------------------------------------- C38

\* The forward map of node n's UsernameStore.
ForwardMap(n) == username_store[n].username_peer_id_map

\* No key leaves either map of a UsernameStore.
KeysStay ==
    \A n \in Nodes :
        /\ DOMAIN ForwardMap(n) \subseteq DOMAIN ForwardMap(n)'
        /\ DOMAIN username_store[n].peer_id_username_map
               \subseteq DOMAIN username_store'[n].peer_id_username_map

\* Every cached pair is cached after the step as well.
PairsStay == \A n \in Nodes : Forward(n) \subseteq Forward(n)'

\* A Client::get_peer_id of a cached username answers with the peer id the
\* store holds, whatever the DHT holds for the username, and neither
\* enqueues a Command nor touches the store.
HitAnswersFromStore ==
    \A n \in Nodes : \A u \in DOMAIN ForwardMap(n) :
        (/\ store_call' # store_call
         /\ store_call'.op = "Client::get_peer_id"
         /\ store_call'.node = n
         /\ store_call'.username = u)
        => /\ store_call'.result = <<SomePeer(ForwardMap(n)[u])>>
           /\ calls' = calls
           /\ command_channel' = command_channel
           /\ username_store' = username_store

\* The peer id cached for a username changes only where find_user or
\* find_peer_username returns with a successful DHT resolution that names
\* the username and the new peer id.
ReplacedOnlyByResolution ==
    \A n \in Nodes : \A u \in DOMAIN ForwardMap(n) :
        (u \in DOMAIN ForwardMap(n)' /\ ForwardMap(n)'[u] # ForwardMap(n)[u])
        => \E k \in finished' \ finished :
              /\ calls[k].node = n
              /\ \/ /\ calls[k].kind = "FindPeerId"
                    /\ calls[k].username = u
                    /\ reply[k][1] = SomePeer(ForwardMap(n)'[u])
                 \/ /\ calls[k].kind = "FindPeerUsername"
                    /\ reply[k][1] = OkName(u)
                    /\ calls[k].peer_id = ForwardMap(n)'[u]

====
